---- MODULE Spec2Model ----
(***************************************************************************)
(* Daily complaints pipeline (complaints_ai): the orchestrator and its     *)
(* agents over complaints_raw, the baseline artifacts and the derived      *)
(* tables daily_anomalies, daily_trends, daily_variations, exec_insights.  *)
(*                                                                         *)
(* Conventions                                                             *)
(*  - A calendar date is a day number, day 1 = 2026-01-01 (a Thursday).    *)
(*  - A timestamp is a number of hours, 24 * day + hour.                   *)
(*  - A float is kept in fixed point, three decimals (value * 1000).       *)
(*  - A table is a bag of rows: the autoincrement id column only tells     *)
(*    equal rows apart, which is what the multiplicity of the bag does.    *)
(*  - SQL NULL / polars null is NullStr in a text column and NullNum in a  *)
(*    date or timestamp column.                                            *)
(***************************************************************************)
EXTENDS Bags, FiniteSets, Integers, Sequences, TLC

VARIABLES
    legacy_schema,  \* complaints_raw still has the columns olt_id and status
    altered,        \* the tables whose dimension column update_db_schema.py altered
    raw,            \* complaints_raw: set of rows, one per sr_number
    baselines,      \* baseline_<dim>_daily.parquet: dimension -> file (NoFile if absent)
    anomalies,      \* daily_anomalies (bag)
    trends,         \* daily_trends (bag)
    variations,     \* daily_variations (bag)
    insights,       \* exec_insights (bag)
    mttr,           \* daily_mttr (bag)
    aging,          \* daily_aging (bag)
    session,        \* the SQLAlchemy session a stage's store step has open
    pc,             \* position of run_pipeline
    args,           \* arguments of the invocation in progress
    trace,          \* stages executed in the invocation in progress, with results
    result,         \* value returned by run_pipeline (NoResult while it runs)
    runs,           \* number of invocations started
    faults,         \* number of database failures injected
    hist            \* what the invocation in progress (or the last one) found at its start

vars == <<legacy_schema, altered, raw, baselines, anomalies, trends, variations, insights,
          mttr, aging, session, pc, args, trace, result, runs, faults, hist>>

-----------------------------------------------------------------------------
(* Bounds of the model *)

MaxRuns == 2
MaxFaults == 1

-----------------------------------------------------------------------------
(* Values *)

NullStr == "<null>"
NullNum == -100000
NoFile == [exists |-> FALSE, rows |-> {}]
NoArg == "<none>"
NoResult == [status |-> "none"]
NoSession == [open |-> FALSE]

\* str(x) of Python on a dimension value read back from the database
Str(v) == IF v = NullStr THEN "None" ELSE v

Min(a, b) == IF a < b THEN a ELSE b
Abs(a) == IF a < 0 THEN 0 - a ELSE a

SeqToSet(s) == {s[i] : i \in DOMAIN s}

RECURSIVE SumOver(_, _)
SumOver(S, f) ==
    IF S = {} THEN 0
    ELSE LET x == CHOOSE y \in S : TRUE IN f[x] + SumOver(S \ {x}, f)

RECURSIVE ISqrtIter(_, _, _)
ISqrtIter(v, lo, hi) ==
    IF lo >= hi THEN lo
    ELSE LET mid == (lo + hi + 1) \div 2
         IN IF mid * mid <= v THEN ISqrtIter(v, mid, hi)
            ELSE ISqrtIter(v, lo, mid - 1)

\* floor of the square root
ISqrt(v) == ISqrtIter(v, 0, Min(v, 46340))

\* a / b rounded to the nearest integer (a >= 0, b > 0)
RoundDiv(a, b) == (2 * a + b) \div (2 * b)

\* a / b (b > 0) rounded to the nearest integer, a tie going to the even one:
\* round() of a value that is exact
SignedRound(a, b) ==
    LET t == a \div b
        twice == 2 * (a - t * b)
    IN IF twice > b THEN t + 1
       ELSE IF twice = b THEN t + (t % 2)
       ELSE t

\* a / b is exactly half way between two integers
HalfWay(a, b) == (2 * a) % b = 0 /\ ((2 * a) \div b) % 2 = 1

\* Natural numbers beyond the machine word, for the comparisons the code makes
\* in float64 on products the fixed point cannot hold: a number is the
\* sequence of its digits in base 10000, least significant first
RECURSIVE BigOf(_)
BigOf(n) == IF n = 0 THEN << >> ELSE <<n % 10000>> \o BigOf(n \div 10000)

RECURSIVE BigNorm(_)
BigNorm(a) ==
    IF a = << >> THEN a
    ELSE IF a[Len(a)] = 0 THEN BigNorm(SubSeq(a, 1, Len(a) - 1)) ELSE a

RECURSIVE BigAdd(_, _, _)
BigAdd(a, b, carry) ==
    IF a = << >> /\ b = << >> THEN BigOf(carry)
    ELSE LET x == IF a = << >> THEN 0 ELSE a[1]
             y == IF b = << >> THEN 0 ELSE b[1]
             ta == IF a = << >> THEN a ELSE Tail(a)
             tb == IF b = << >> THEN b ELSE Tail(b)
         IN <<(x + y + carry) % 10000>> \o BigAdd(ta, tb, (x + y + carry) \div 10000)

\* a - b for a >= b
RECURSIVE BigSub(_, _, _)
BigSub(a, b, borrow) ==
    IF a = << >> THEN << >>
    ELSE LET y == (IF b = << >> THEN 0 ELSE b[1]) + borrow
             tb == IF b = << >> THEN b ELSE Tail(b)
         IN IF a[1] >= y THEN <<a[1] - y>> \o BigSub(Tail(a), tb, 0)
            ELSE <<a[1] + 10000 - y>> \o BigSub(Tail(a), tb, 1)

\* a times one digit
RECURSIVE BigScale(_, _, _)
BigScale(a, digit, carry) ==
    IF a = << >> THEN BigOf(carry)
    ELSE <<(a[1] * digit + carry) % 10000>>
            \o BigScale(Tail(a), digit, (a[1] * digit + carry) \div 10000)

RECURSIVE BigMul(_, _)
BigMul(a, b) ==
    IF b = << >> THEN << >>
    ELSE BigAdd(BigScale(a, b[1], 0), <<0>> \o BigMul(a, Tail(b)), 0)

RECURSIVE BigLessNorm(_, _)
BigLessNorm(a, b) ==
    IF Len(a) # Len(b) THEN Len(a) < Len(b)
    ELSE IF a = << >> THEN FALSE
    ELSE IF a[Len(a)] # b[Len(b)] THEN a[Len(a)] < b[Len(b)]
    ELSE BigLessNorm(SubSeq(a, 1, Len(a) - 1), SubSeq(b, 1, Len(b) - 1))

\* a < b
BigLess(a, b) == BigLessNorm(BigNorm(a), BigNorm(b))

BigEqual(a, b) == BigNorm(a) = BigNorm(b)

RECURSIVE BigPow2(_)
BigPow2(k) ==
    IF k = 0 THEN <<1>>
    ELSE IF k >= 12 THEN BigScale(BigPow2(k - 12), 4096, 0)
    ELSE BigScale(BigPow2(k - 1), 2, 0)

\* the largest t in lo .. hi with t * q <= p (a machine integer)
RECURSIVE BigQuot(_, _, _, _)
BigQuot(p, q, lo, hi) ==
    IF lo >= hi THEN lo
    ELSE LET mid == lo + (hi - lo + 1) \div 2
         IN IF BigLess(p, BigMul(BigOf(mid), q)) THEN BigQuot(p, q, lo, mid - 1)
            ELSE BigQuot(p, q, mid, hi)

-----------------------------------------------------------------------------
(* float64: a Python float is a signed fraction [neg, n, d] whose value is   *)
(* one a binary64 holds; each operation gives the correctly rounded result  *)
(* (round to nearest, ties to even) of the exact one, as IEEE 754 has it.    *)
(* Only normal numbers occur.                                                *)

\* p / q = (p' / q') * 2^e with 1 <= p' / q' < 2, for p > 0
RECURSIVE FlNorm(_, _, _)
FlNorm(p, q, e) ==
    IF BigLess(BigScale(p, 4096, 0), q) THEN FlNorm(BigScale(p, 4096, 0), q, e - 12)
    ELSE IF BigLess(p, q) THEN FlNorm(BigScale(p, 2, 0), q, e - 1)
    ELSE IF ~BigLess(p, BigScale(q, 4096, 0)) THEN FlNorm(p, BigScale(q, 4096, 0), e + 12)
    ELSE IF ~BigLess(p, BigScale(q, 2, 0)) THEN FlNorm(p, BigScale(q, 2, 0), e + 1)
    ELSE <<p, q, e>>

\* the member of a one-element set: in The({e(x) : x \in {v}}) the value v is
\* computed once for all its uses in e
The(S) == CHOOSE x \in S : TRUE

\* the next bits of the quotient, shift = 2^bits at a time:
\* <<quotient so far, remainder>>
FlBits(mr, q, shift) ==
    The({<<BigAdd(BigMul(c.m, BigOf(shift)), BigOf(c.t), 0),
           BigSub(c.r, BigMul(BigOf(c.t), c.q), 0)>> :
            c \in {[m |-> b.m, q |-> b.q, r |-> b.r,
                    t |-> BigQuot(b.r, b.q, 0, 2 * shift - 1)] :
                   b \in {[m |-> a[1][1], q |-> a[2], r |-> BigMul(a[1][2], BigOf(shift))] :
                          a \in {<<mr, q>>}}}})

\* the 53-bit quotient m and remainder of the normalised fraction nz, rounded
\* to nearest with a tie going to the even quotient
FlRounded(nz, mr) ==
    LET twice == BigScale(mr[2], 2, 0)
        up == \/ BigLess(nz[2], twice)
              \/ BigEqual(nz[2], twice) /\ mr[1][1] % 2 = 1
        e == nz[3] - 52
    IN The({IF e >= 0 THEN <<BigMul(m, BigPow2(e)), <<1>> >> ELSE <<m, BigPow2(0 - e)>> :
               m \in {IF up THEN BigAdd(mr[1], <<1>>, 0) ELSE mr[1]}})

\* the binary64 nearest to p / q (p >= 0, q > 0), as <<numerator, denominator>>:
\* the 53 bits of the quotient (1 + 16 + 18 + 18), rounded on the remainder
FlNearest(p, q) ==
    The({IF BigNorm(a[1]) = << >> THEN << << >>, <<1>> >>
         ELSE The({FlRounded(b[1], b[2]) :
                     b \in {<<nz, FlBits(FlBits(FlBits(<< << >>, nz[1]>>, nz[2], 65536),
                                                nz[2], 262144),
                                         nz[2], 262144)>> :
                            nz \in {FlNorm(a[1], a[2], 0)}}}) :
            a \in {<<p, q>>}})

FlMake(neg, v) ==
    The({[neg |-> neg /\ BigNorm(w[1]) # << >>, n |-> w[1], d |-> w[2]] : w \in {v}})

\* float(a) / float(b) for integers a and b > 0 (both exact as floats)
FlOfRatio(a, b) == FlMake(a < 0, FlNearest(BigOf(Abs(a)), BigOf(b)))

FlOfInt(a) == [neg |-> a < 0, n |-> BigOf(Abs(a)), d |-> <<1>>]

RECURSIVE OddPart(_)
OddPart(n) == IF n % 2 = 0 THEN OddPart(n \div 2) ELSE n

\* a / b (b > 0, both below 2^31) is a float as it stands: a dyadic fraction
FlExact(a, b) == a % OddPart(b) = 0

\* float("a.bcd"): the float of a decimal literal of a / 10^k
FlOfDecimal(a, scale) == FlOfRatio(a, scale)

FlIsZero(x) == BigNorm(x.n) = << >>

FlMul(x, y) ==
    The({FlMake(a.neg # b.neg, FlNearest(BigMul(a.n, b.n), BigMul(a.d, b.d))) :
            a \in {x}, b \in {y}})

\* x / y, y not zero
FlDiv(x, y) ==
    The({FlMake(a.neg # b.neg, FlNearest(BigMul(a.n, b.d), BigMul(a.d, b.n))) :
            a \in {x}, b \in {y}})

\* |x| < |y|
FlAbsLess(x, y) ==
    The({BigLess(BigMul(a.n, b.d), BigMul(b.n, a.d)) : a \in {x}, b \in {y}})

FlNeg(x) == The({[a EXCEPT !.neg = ~a.neg /\ ~FlIsZero(a)] : a \in {x}})

\* x + y of two values held as they are
FlSum(x, y) ==
    LET a == BigMul(x.n, y.d)
        b == BigMul(y.n, x.d)
        d == BigMul(x.d, y.d)
    IN IF x.neg = y.neg THEN FlMake(x.neg, FlNearest(BigAdd(a, b, 0), d))
       ELSE IF BigLess(a, b) THEN FlMake(y.neg, FlNearest(BigSub(b, a, 0), d))
       ELSE FlMake(x.neg, FlNearest(BigSub(a, b, 0), d))

FlAdd(x, y) == The({FlSum(a, b) : a \in {x}, b \in {y}})

FlSub(x, y) == FlAdd(x, FlNeg(y))

\* x < y
FlLess(x, y) ==
    The({IF a.neg # b.neg THEN a.neg
         ELSE IF a.neg THEN FlAbsLess(b, a) ELSE FlAbsLess(a, b) : a \in {x}, b \in {y}})

\* floor(x * scale), a machine integer
FlFloor(x, scale) ==
    The({IF ~c.neg THEN c.t
         ELSE IF BigEqual(BigMul(BigOf(c.t), c.d), c.p) THEN 0 - c.t ELSE 0 - (c.t + 1) :
            c \in {[neg |-> b.neg, d |-> b.d, p |-> b.p,
                    t |-> BigQuot(b.p, b.d, 0, 1073741823)] :
                   b \in {[neg |-> a.neg, d |-> a.d, p |-> BigMul(a.n, BigOf(scale))] :
                          a \in {x}}}})

\* round(x, k) and f"{x:.kf}" with scale = 10^k, in units of 1 / scale: the
\* multiple nearest to the value the float holds, a tie going to the even one
FlRound(x, scale) ==
    The({LET twice == BigScale(BigSub(c.p, BigMul(BigOf(c.t), c.d), 0), 2, 0)
             mag == IF BigLess(c.d, twice) THEN c.t + 1
                    ELSE IF BigEqual(c.d, twice) THEN c.t + (c.t % 2)
                    ELSE c.t
         IN IF c.neg THEN 0 - mag ELSE mag :
            c \in {[neg |-> b.neg, d |-> b.d, p |-> b.p,
                    t |-> BigQuot(b.p, b.d, 0, 1073741823)] :
                   b \in {[neg |-> a.neg, d |-> a.d, p |-> BigMul(a.n, BigOf(scale))] :
                          a \in {x}}}})

\* Bag of the rows f(r), r ranging over the copies of bag B
\* (P holds, for each distinct row r, the triple <<r, f(r), copies of r>>)
BagMap(B, f(_)) ==
    CHOOSE bag \in {[t \in {p[2] : p \in P} |->
                       SumOver({p \in P : p[2] = t}, [p \in P |-> p[3]])] :
                    P \in {{<<r, f(r), CopiesIn(r, b)>> : r \in BagToSet(b)} : b \in {B}}} : TRUE

BagFilter(B, p(_)) ==
    LET S == {r \in BagToSet(B) : p(r)} IN [r \in S |-> CopiesIn(r, B)]

\* Sequences that enumerate the set S without repetition
RECURSIVE Perms(_)
Perms(S) ==
    IF S = {} THEN {<< >>}
    ELSE UNION {{<<x>> \o s : s \in Perms(S \ {x})} : x \in S}

\* group_by(...).len().sort("len", descending=True) yields the groups in some
\* order of non-increasing count; the order within equal counts is not fixed
SortedByCountDesc(S, cnt) ==
    {s \in Perms(S) : \A i, j \in DOMAIN s : i < j => cnt[s[i]] >= cnt[s[j]]}

\* ... .head(n) / .limit(n) of such a frame
TopN(S, cnt, n) ==
    {SubSeq(s, 1, Min(n, Len(s))) : s \in SortedByCountDesc(S, cnt)}

-----------------------------------------------------------------------------
(* Calendar: datetime / timedelta arithmetic on day numbers of 2026 *)

MonthLen == <<31, 28, 31, 30, 31, 30, 31, 31, 30, 31, 30, 31>>

RECURSIVE DaysBeforeMonth(_)
DaysBeforeMonth(m) == IF m <= 1 THEN 0 ELSE MonthLen[m - 1] + DaysBeforeMonth(m - 1)

MonthOf(d) == CHOOSE m \in 1..12 : DaysBeforeMonth(m) < d /\ d <= DaysBeforeMonth(m) + MonthLen[m]

\* datetime.weekday(): Monday is 0
Weekday(d) == (d + 2) % 7

\* target_date.replace(day=1)
MonthStart(d) == DaysBeforeMonth(MonthOf(d)) + 1

\* first day of the previous calendar month (1 December 2025 is day -30)
PrevMonthStart(d) ==
    IF MonthOf(d) = 1 THEN 0 - 30 ELSE DaysBeforeMonth(MonthOf(d) - 1) + 1

DateOf(ts) == ts \div 24

-----------------------------------------------------------------------------
(* complaints_raw and the input files *)

\* Columns of ComplaintsRaw that the stages of the pipeline read or key on
ModelColumns ==
    {"sr_number", "sr_row_id", "sr_open_dt", "sr_open_dttm", "sr_close_dttm",
     "sr_type", "sr_status", "rca", "region", "city", "exc_id", "mdn"}

NumColumns == {"sr_open_dt", "sr_open_dttm", "sr_close_dttm"}

NullOf(c) == IF c \in NumColumns THEN NullNum ELSE NullStr

\* One line of a file with the header sr_number,timestamp,type,region,exchange,rca
Line(n, day, type, region, exc, rca) ==
    [sr_number |-> n, timestamp |-> 24 * day + 10, type |-> type,
     region |-> region, exchange |-> exc, rca |-> rca]

AllLines ==
    << Line("L05", 5, "Internet", "Lahore", "Cantt", "Fiber Cut"),
       Line("L06", 6, "Internet", "Lahore", "Cantt", "Fiber Cut"),
       Line("L07", 7, "Internet", "Lahore", "Cantt", "Fiber Cut"),
       Line("L08", 8, "Internet", "Lahore", "Cantt", "Fiber Cut"),
       Line("L12", 12, "Internet", "Lahore", "Cantt", "Fiber Cut"),
       Line("L13a", 13, "Internet", "Lahore", "Cantt", "Fiber Cut"),
       Line("L13b", 13, "Internet", "Lahore", "Gulberg", "Power Outage"),
       Line("L14", 14, "Internet", "Lahore", "Gulberg", "Fiber Cut"),
       Line("K06", 6, "Voice", "Karachi", "Clifton", "Fiber Cut"),
       Line("K12a", 12, "Voice", "Karachi", "Clifton", "Fiber Cut"),
       Line("K12b", 12, "Voice", "Karachi", "Clifton", "Fiber Cut"),
       Line("K13a", 13, "Voice", "Karachi", "Clifton", "Fiber Cut"),
       Line("K13b", 13, "Voice", "Karachi", "Clifton", "Fiber Cut"),
       Line("K13c", 13, "Voice", "Karachi", "Clifton", "Power Outage"),
       Line("K14a", 14, "Voice", "Karachi", "Clifton", "Fiber Cut"),
       Line("K14b", 14, "Voice", "Karachi", "Clifton", "Power Outage"),
       Line("K14c", 14, "Voice", "Karachi", "Clifton", "Power Outage"),
       Line("N13a", 13, "Internet", NullStr, "Cantt", "Fiber Cut"),
       Line("N13b", 13, "Internet", "None", "Cantt", "Fiber Cut") >>

\* A file on disk: does the path exist, the header, the data lines
FileAll ==
    [exists |-> TRUE,
     columns |-> {"sr_number", "timestamp", "type", "region", "exchange", "rca"},
     rows |-> AllLines]

\* A file without the exchange column
FileBad ==
    [exists |-> TRUE,
     columns |-> {"sr_number", "timestamp", "type", "region"},
     rows |-> << [sr_number |-> "B01", timestamp |-> 24 * 13 + 9,
                   type |-> "Voice", region |-> "Karachi"] >>]

FileMissing == [exists |-> FALSE, columns |-> {}, rows |-> << >>]

\* A later export of the requests opened on day 13, their open time now on day 15
RedatedLines ==
    << Line("L13a", 15, "Internet", "Lahore", "Cantt", "Fiber Cut"),
       Line("L13b", 15, "Internet", "Lahore", "Gulberg", "Power Outage"),
       Line("K13a", 15, "Voice", "Karachi", "Clifton", "Fiber Cut"),
       Line("K13b", 15, "Voice", "Karachi", "Clifton", "Fiber Cut"),
       Line("K13c", 15, "Voice", "Karachi", "Clifton", "Power Outage"),
       Line("N13a", 15, "Internet", NullStr, "Cantt", "Fiber Cut"),
       Line("N13b", 15, "Internet", "None", "Cantt", "Fiber Cut") >>

FileRedated ==
    [exists |-> TRUE,
     columns |-> {"sr_number", "timestamp", "type", "region", "exchange", "rca"},
     rows |-> RedatedLines]

Files == [all |-> FileAll, redated |-> FileRedated, bad |-> FileBad, missing |-> FileMissing]

FileNames == DOMAIN Files

\* the days a pipeline is run for; 15 is the day of the redated export, with
\* no complaint before it when that export is the first file ingested
TargetDates == {13, 14, 15}

-----------------------------------------------------------------------------
(* IngestionAgent *)

required_columns == <<"sr_number", "sr_open_dttm", "sr_type", "region", "exc_id">>

synonyms ==
    << [target |-> "sr_row_id",
        matches |-> <<"id", "row_id", "record_id", "row", "sr_id", "sr_row", "rowid">>],
       [target |-> "sr_open_dttm",
        matches |-> <<"date", "time", "open_date", "opened", "timestamp", "created_at",
                      "open_dttm", "occurrence_time">>],
       [target |-> "sr_type",
        matches |-> <<"type", "complaint_type", "category", "sr_type", "order_type">>],
       [target |-> "region",
        matches |-> <<"location", "zone", "area", "region_name">>],
       [target |-> "exc_id",
        matches |-> <<"exchange", "exc", "exchange_id", "excid">>] >>

expected_fields ==
    <<"rca", "desc_text", "sr_sub_type", "sr_sub_status", "city", "cabinet_id", "dp_id",
      "switch_id", "mdn", "region_id", "product", "sub_product", "cust_seg", "sr_duration",
      "sr_number", "product_id">>

\* df.rename({old: new}) on a frame [columns, rows]
Rename(df, old, new) ==
    LET cols == (df.columns \ {old}) \cup {new}
    IN [columns |-> cols,
        rows |-> [i \in DOMAIN df.rows |->
                    [c \in cols |-> IF c = new THEN df.rows[i][old] ELSE df.rows[i][c]]]]

\* df.with_columns(pl.lit(None).alias(col))
AddNullColumn(df, col) ==
    LET cols == df.columns \cup {col}
    IN [columns |-> cols,
        rows |-> [i \in DOMAIN df.rows |->
                    [c \in cols |-> IF c = col THEN NullOf(col) ELSE df.rows[i][c]]]]

\* the first synonym of the list that is a column of the frame, or NoArg
FirstMatch(matches, cols) ==
    IF \E i \in DOMAIN matches : matches[i] \in cols
    THEN matches[CHOOSE i \in DOMAIN matches :
                    /\ matches[i] \in cols
                    /\ \A j \in 1..(i - 1) : matches[j] \notin cols]
    ELSE NoArg

RECURSIVE MapSynonyms(_, _)
MapSynonyms(df, i) ==
    IF i > Len(synonyms) THEN df
    ELSE LET s == synonyms[i]
             m == FirstMatch(s.matches, df.columns)
         IN IF s.target \notin df.columns /\ m # NoArg
            THEN MapSynonyms(Rename(df, m, s.target), i + 1)
            ELSE MapSynonyms(df, i + 1)

RECURSIVE FillExpected(_, _)
FillExpected(df, i) ==
    IF i > Len(expected_fields) THEN df
    ELSE IF expected_fields[i] \in df.columns THEN FillExpected(df, i + 1)
    ELSE FillExpected(AddNullColumn(df, expected_fields[i]), i + 1)

RenamePriority(df) ==
    IF "sr_prio_cd" \in df.columns THEN Rename(df, "sr_prio_cd", "priority") ELSE df

\* validate_schema: the required columns that the frame lacks
validate_schema(df) ==
    {required_columns[i] : i \in {j \in DOMAIN required_columns :
                                    required_columns[j] \notin df.columns}}

\* sr_open_dt is taken from sr_open_dttm when the file gives no usable sr_open_dt
DeriveOpenDate(df) ==
    LET has == "sr_open_dt" \in df.columns
        allnull == has /\ \A i \in DOMAIN df.rows : df.rows[i]["sr_open_dt"] = NullNum
        cols == df.columns \cup {"sr_open_dt"}
    IN IF has /\ ~allnull THEN df
       ELSE [columns |-> cols,
             rows |-> [i \in DOMAIN df.rows |->
                         [c \in cols |->
                            IF c = "sr_open_dt"
                            THEN IF df.rows[i]["sr_open_dttm"] = NullNum THEN NullNum
                                 ELSE DateOf(df.rows[i]["sr_open_dttm"])
                            ELSE df.rows[i][c]]]]

RenameStatus(df) ==
    IF "status" \in df.columns /\ "sr_status" \notin df.columns
    THEN Rename(df, "status", "sr_status") ELSE df

\* df.drop_nulls(subset=["sr_open_dttm"])
DropNullOpen(df) ==
    [columns |-> df.columns,
     rows |-> SelectSeq(df.rows, LAMBDA r : r["sr_open_dttm"] # NullNum)]

\* records that carry an sr_number, cut down to the columns of the table
CleanRecords(df) ==
    LET keep == SelectSeq(df.rows, LAMBDA r : r["sr_number"] \notin {NullStr, ""})
        cols == df.columns \cap ModelColumns
    IN [i \in DOMAIN keep |-> [c \in cols |-> keep[i][c]]]

\* a variant that leaves the stored row alone on a duplicate key (INSERT IGNORE)
UpsertOneKeepOld(table, rec) ==
    IF \E r \in table : r["sr_number"] = rec["sr_number"] THEN table
    ELSE table \cup {[c \in ModelColumns |-> IF c \in DOMAIN rec THEN rec[c] ELSE NullOf(c)]}

\* INSERT ... ON DUPLICATE KEY UPDATE of one record
UpsertOne(table, rec) ==
    LET old == {r \in table : r["sr_number"] = rec["sr_number"]}
        new == IF old = {}
               THEN [c \in ModelColumns |-> IF c \in DOMAIN rec THEN rec[c] ELSE NullOf(c)]
               ELSE LET o == CHOOSE r \in old : TRUE
                    IN [c \in ModelColumns |-> IF c \in DOMAIN rec THEN rec[c] ELSE o[c]]
    IN (table \ old) \cup {new}

RECURSIVE Upsert(_, _, _)
Upsert(table, recs, i) ==
    IF i > Len(recs) THEN table ELSE Upsert(UpsertOne(table, recs[i]), recs, i + 1)

\* a variant in which the first record of the batch stays when the statement fails
FailedUpsertPartial(table, recs) == UpsertOne(table, recs[1])

\* session.execute / session.commit raised: the except branch returns the error
\* and the session is never committed, so the table keeps its rows
FailedUpsert(table, recs) == table

\* The frame after header mapping (the header is already lower case and trimmed)
Normalized(f) == FillExpected(RenamePriority(MapSynonyms([columns |-> f.columns, rows |-> f.rows], 1)), 1)

\* IngestionAgent.run: <<result, complaints_raw afterwards>>
IngestionRun(table, f, db_fails) ==
    IF ~f.exists THEN <<[status |-> "error", message |-> "Invalid file path"], table>>
    ELSE IF Len(f.rows) = 0
    THEN <<[status |-> "error", message |-> "CSV file appears to be empty"], table>>
    ELSE LET df == Normalized(f)
             missing == validate_schema(df)
         IN IF missing # {}
            THEN <<[status |-> "error", message |-> "Schema validation failed",
                    missing |-> missing, found |-> df.columns], table>>
            ELSE LET dated == DropNullOpen(RenameStatus(DeriveOpenDate(df)))
                     clean == CleanRecords(dated)
                 IN IF Len(dated.rows) = 0
                    THEN <<[status |-> "error", message |-> "No valid rows after date parsing"],
                           table>>
                    ELSE IF db_fails /\ Len(clean) > 0
                    THEN <<[status |-> "error", message |-> "database error"],
                           FailedUpsert(table, clean)>>
                    ELSE <<[status |-> "success", processed_rows |-> Len(dated.rows)],
                           Upsert(table, clean, 1)>>

-----------------------------------------------------------------------------
(* Queries on complaints_raw *)

\* WHERE sr_open_dt BETWEEN a AND b (a NULL date satisfies no comparison)
RowsBetween(table, a, b) ==
    {r \in table : r["sr_open_dt"] # NullNum /\ a <= r["sr_open_dt"] /\ r["sr_open_dt"] <= b}

RowsOn(table, d) == RowsBetween(table, d, d)

KeysOf(rows, col) == {r[col] : r \in rows}

DaysOf(rows) == {r["sr_open_dt"] : r \in rows}

\* number of rows of the group (key, day) of a group_by; key may be the null group
CountOn(rows, col, key, d) ==
    Cardinality({r \in rows : r[col] = key /\ r["sr_open_dt"] = d})

CountKey(rows, col, key) == Cardinality({r \in rows : r[col] = key})

\* days of [a, b] on which the key has at least one row
DaysWith(rows, col, key, a, b) ==
    {d \in DaysOf(rows) : a <= d /\ d <= b /\ CountOn(rows, col, key, d) > 0}

-----------------------------------------------------------------------------
(* ValidationAgent *)

\* columns of complaints_raw that a table created by an earlier revision still has
LegacyColumns == {"olt_id", "status"}

ValidationColumns == {"sr_row_id", "sr_open_dttm", "region", "sr_type", "rca", "status"}

\* can the SELECT name these columns
QueryOk(cols, legacy) == \A c \in cols : c \in ModelColumns \/ (legacy /\ c \in LegacyColumns)

HoursOfDay == 24

ValidationRun(table, legacy, d, db_fails) ==
    IF db_fails \/ ~QueryOk(ValidationColumns, legacy)
    THEN [status |-> "error", message |-> "database error"]
    ELSE LET df == RowsOn(table, d)
             nulls == {c \in {"region", "sr_type", "rca"} : \E r \in df : r[c] = NullStr}
             present_hours == {r["sr_open_dttm"] : r \in df}
             expected_hours == {HoursOfDay * d + i : i \in 0..(HoursOfDay - 1)}
             missing_hours == expected_hours \ present_hours
             gaps == IF missing_hours # {} THEN {"missing hours"} ELSE {}
         IN IF df = {} THEN [status |-> "warning", message |-> "No data found"]
            ELSE [status |-> "success", issues |-> nulls \cup gaps,
                  missing_hours |-> Cardinality(missing_hours), row_count |-> Cardinality(df)]

-----------------------------------------------------------------------------
(* BaselineAgent *)

dimensions == <<"Type", "Region", "Exchange", "City", "RCA">>

DimCol == [Type |-> "sr_type", Region |-> "region", Exchange |-> "exc_id",
           City |-> "city", RCA |-> "rca"]

windows == <<7, 14, 30>>

BaselineBuffer == 35

BaselineColumns == {"sr_open_dt", "sr_type", "region", "exc_id", "olt_id", "rca"}

\* mean of the daily counts of a key over the days of the window that have rows
MeanMilli(rows, col, key, days) ==
    IF days = {} THEN 0
    ELSE (1000 * SumOver(days, [d \in days |-> CountOn(rows, col, key, d)]))
            \div Cardinality(days)

\* sample standard deviation (ddof = 1) of the same counts; null, filled with 0,
\* when there are fewer than two
StdMilli(rows, col, key, days) ==
    IF Cardinality(days) < 2 THEN 0
    ELSE LET m == MeanMilli(rows, col, key, days)
             sq == [d \in days |->
                      (1000 * CountOn(rows, col, key, d) - m) * (1000 * CountOn(rows, col, key, d) - m)]
         IN ISqrt(SumOver(days, sq) \div (Cardinality(days) - 1))

\* The days that enter the statistics of window w relative to target date d:
\* sr_open_dt < d (the target date is left out) and sr_open_dt >= d - w
WindowDays(rows, col, key, d, w) == DaysWith(rows, col, key, d - w, d - 1)

\* sum and sum of squares of the same daily counts: the exact statistics that
\* avg and std are rounded from
SumCounts(rows, col, key, days) == SumOver(days, [d \in days |-> CountOn(rows, col, key, d)])

SumSqCounts(rows, col, key, days) ==
    SumOver(days, [d \in days |-> CountOn(rows, col, key, d) * CountOn(rows, col, key, d)])

\* the columns one window's agg_df brings to the joined frame; a line that the
\* window has no group for gets nulls, which fill_null(0) turns into 0
WindowStats(rows, col, key, d, w, joined) ==
    IF joined
    THEN [avg |-> MeanMilli(rows, col, key, WindowDays(rows, col, key, d, w)),
          std |-> StdMilli(rows, col, key, WindowDays(rows, col, key, d, w)),
          samples |-> Cardinality(WindowDays(rows, col, key, d, w)),
          days |-> WindowDays(rows, col, key, d, w)]
    ELSE [avg |-> 0, std |-> 0, samples |-> 0, days |-> {}]

\* one line of the artifact, made of the windows ws (indexes into windows) that
\* were joined into it; g_days, g_sum, g_sumsq and g_target record where the
\* numbers of the 30-day columns come from
JoinedLine(rows, col, key, d, ws) ==
    [key |-> key,
     avg_7d |-> WindowStats(rows, col, key, d, windows[1], 1 \in ws).avg,
     std_7d |-> WindowStats(rows, col, key, d, windows[1], 1 \in ws).std,
     samples_7d |-> WindowStats(rows, col, key, d, windows[1], 1 \in ws).samples,
     avg_14d |-> WindowStats(rows, col, key, d, windows[2], 2 \in ws).avg,
     std_14d |-> WindowStats(rows, col, key, d, windows[2], 2 \in ws).std,
     samples_14d |-> WindowStats(rows, col, key, d, windows[2], 2 \in ws).samples,
     avg_30d |-> WindowStats(rows, col, key, d, windows[3], 3 \in ws).avg,
     std_30d |-> WindowStats(rows, col, key, d, windows[3], 3 \in ws).std,
     samples_30d |-> WindowStats(rows, col, key, d, windows[3], 3 \in ws).samples,
     g_days |-> WindowStats(rows, col, key, d, windows[3], 3 \in ws).days,
     g_sum |-> SumCounts(rows, col, key,
                         WindowStats(rows, col, key, d, windows[3], 3 \in ws).days),
     g_sumsq |-> SumSqCounts(rows, col, key,
                             WindowStats(rows, col, key, d, windows[3], 3 \in ws).days),
     g_target |-> d]

\* the line of a key that is not null: the outer join on the key brings the
\* windows' groups of the key together
BaselineEntry(rows, col, key, d) == JoinedLine(rows, col, key, d, DOMAIN windows)

\* final_dim_df of one dimension: the keys that have a day in the widest window.
\* A join matches no null key, so the null group of each window stays a line of
\* its own, with the columns of the other windows filled with 0
BaselineFile(rows, col, d) ==
    LET keys == {k \in KeysOf(rows, col) \ {NullStr} :
                    WindowDays(rows, col, k, d, windows[3]) # {}}
        nulls == {i \in DOMAIN windows : WindowDays(rows, col, NullStr, d, windows[i]) # {}}
    IN [exists |-> TRUE,
        rows |-> {BaselineEntry(rows, col, k, d) : k \in keys}
                   \cup {JoinedLine(rows, col, NullStr, d, {i}) : i \in nulls}]

\* the loop over the dimensions: an artifact is written per dimension, in order,
\* until a dimension's column turns out not to be in the fetched frame
RECURSIVE BaselineLoop(_, _, _, _)
BaselineLoop(files, rows, d, i) ==
    IF i > Len(dimensions) THEN <<[status |-> "success"], files>>
    ELSE LET dim == dimensions[i] IN
         IF DimCol[dim] \notin BaselineColumns
         THEN <<[status |-> "error", message |-> "column not found"], files>>
         ELSE BaselineLoop([files EXCEPT ![dim] = BaselineFile(rows, DimCol[dim], d)],
                           rows, d, i + 1)

\* BaselineAgent.run: <<result, artifacts afterwards>>
BaselineRun(table, files, legacy, d, db_fails) ==
    IF db_fails \/ ~QueryOk(BaselineColumns, legacy)
    THEN <<[status |-> "error", message |-> "database error"], files>>
    ELSE LET df == RowsBetween(table, d - BaselineBuffer, d)
         IN IF df = {} THEN <<[status |-> "warning", message |-> "No data"], files>>
            ELSE BaselineLoop(files, df, d, 1)

-----------------------------------------------------------------------------
(* AnomalyAgent *)

\* thresholds z_score_warning = 2.0 and z_score_critical = 3.0, epsilon = 0.001
threshold_warning == 2000
threshold_critical == 3000
epsilon == 1

\* the baseline line joined to a key of the day; the null key joins nothing,
\* and a line that is missing is filled with 0
JoinedEntry(file, key) ==
    IF key # NullStr /\ \E e \in file.rows : e.key = key
    THEN LET e == CHOOSE x \in file.rows : x.key = key
         IN [avg |-> e.avg_30d, std |-> e.std_30d, samples |-> e.samples_30d,
             sum |-> e.g_sum, sumsq |-> e.g_sumsq, g_days |-> e.g_days]
    ELSE [avg |-> 0, std |-> 0, samples |-> 0, sum |-> 0, sumsq |-> 0, g_days |-> {}]

\* (current_count - avg_30d) / (std_30d + epsilon) > m / 1000, decided on the
\* exact statistics of the line: with n samples of sum s and sum of squares q,
\* avg = s / n and std = sqrt((n q - s s) / (n (n - 1))), or 0 for n < 2
ZAbove(count, e, m) ==
    LET n == e.samples
        B == BigOf(IF n = 0 THEN count ELSE n * count)
        S == BigOf(e.sum)
        nn == BigOf(IF n = 0 THEN 1 ELSE n)
        D == IF n < 2 THEN 0 ELSE n * e.sumsq - e.sum * e.sum
        lhs == BigMul(BigOf(1000000), B)
        rhs == BigAdd(BigMul(BigOf(1000000), S), BigMul(BigOf(m * epsilon), nn), 0)
        num == BigSub(lhs, rhs, 0)
    IN /\ m >= 0
       /\ BigLess(rhs, lhs)
       /\ D > 0 =>
            BigLess(BigMul(BigMul(BigOf(1000000), BigMul(BigOf(m), BigOf(m))),
                           BigMul(nn, BigOf(D))),
                    BigMul(BigOf(n - 1), BigMul(num, num)))

\* the least m with z <= m / 1000, between lo and hi
RECURSIVE ZSearch(_, _, _, _)
ZSearch(count, e, lo, hi) ==
    IF lo >= hi THEN lo
    ELSE LET mid == lo + (hi - lo) \div 2
         IN IF ZAbove(count, e, mid) THEN ZSearch(count, e, mid + 1, hi)
            ELSE ZSearch(count, e, lo, mid)

\* z_score in thousandths, rounded up: z > t and ZScore(..) > 1000 t are the
\* same for a threshold t of whole thousandths. Only computed for z > 0, where
\* z <= count / epsilon
ZScore(count, e) == ZSearch(count, e, 0, (1000000 * count) \div epsilon)

InitialSeverity(z) == IF z > threshold_critical THEN "CRITICAL" ELSE "WARNING"

AnomalyRow(d, dim, key, count, e) ==
    [anomaly_date |-> d, dimension |-> dim, dimension_key |-> Str(key),
     metric_value |-> count, baseline_avg |-> e.avg, baseline_std |-> e.std,
     z_score |-> ZScore(count, e),
     severity |-> InitialSeverity(ZScore(count, e)),
     rca_context |-> << >>,
     g_days |-> e.g_days]

\* the anomalies of one dimension, as a bag
DetectDimension(cur, file, d, dim) ==
    LET col == DimCol[dim]
        keys == {k \in KeysOf(cur, col) :
                    ZAbove(CountKey(cur, col, k), JoinedEntry(file, k), threshold_warning)}
    IN BagMap(SetToBag(keys),
              LAMBDA k : AnomalyRow(d, dim, k, CountKey(cur, col, k), JoinedEntry(file, k)))

RECURSIVE DetectAll(_, _, _, _)
DetectAll(cur, files, d, i) ==
    IF i > Len(dimensions) THEN EmptyBag
    ELSE LET dim == dimensions[i]
             rest == DetectAll(cur, files, d, i + 1)
         IN IF ~files[dim].exists THEN rest
            ELSE DetectDimension(cur, files[dim], d, dim) (+) rest

\* the dimension column of daily_anomalies, daily_trends and daily_variations:
\* Enum('Type', 'Region', 'Exchange', 'City', 'RCA', 'Total') of db/models.py
ModelsEnum == {"Type", "Region", "Exchange", "City", "RCA", "Total"}

\* ENUM('Type', 'Region', 'Exchange', 'OLT', 'RCA', 'Total') of the ALTER TABLE
\* statements of update_db_schema.py
UpdatedEnum == {"Type", "Region", "Exchange", "OLT", "RCA", "Total"}

\* the members of the dimension column of table t, alt the altered tables
DimEnum(alt, t) == IF t \in alt THEN UpdatedEnum ELSE ModelsEnum

\* do the rows fit the column ('' is the error member of every ENUM)
Fits(rows, enum) == \A r \in BagToSet(rows) : r.dimension \in enum \cup {""}

\* the rows as a server outside strict SQL mode keeps them: a value that is no
\* member of the ENUM becomes ''
Truncated(rows, enum) ==
    BagMap(rows, LAMBDA r : IF r.dimension \in enum \cup {""} THEN r
                            ELSE [r EXCEPT !.dimension = ""])

\* the INSERT of rows, as <<accepted, rows stored>>: a server in strict SQL
\* mode refuses a value that is no member (error 1265), another one stores ''
\* for it; which mode the server runs in is not the program's choice
Inserted(rows, enum) ==
    IF Fits(rows, enum) THEN {<<TRUE, rows>>}
    ELSE {<<FALSE, EmptyBag>>, <<TRUE, Truncated(rows, enum)>>}

\* session.query(DailyAnomalies)...all(): the Enum type of the model raises
\* LookupError on a stored value it does not define
Unreadable(rows) == \E r \in BagToSet(rows) : r.dimension \notin ModelsEnum

\* session.query(DailyAnomalies).filter(anomaly_date == d).delete(); add_all(...)
ReplaceAnomalies(table, d, rows) ==
    BagFilter(table, LAMBDA r : r.anomaly_date # d) (+) rows

\* the store step of AnomalyAgent.run
StoreAnomalies(table, d, rows) ==
    IF rows # EmptyBag THEN ReplaceAnomalies(table, d, rows) ELSE table

\* AnomalyAgent.run: the possible <<result, daily_anomalies afterwards>>
AnomalyRun(table, files, anoms, d, db_fails, enum) ==
    IF db_fails THEN {<<[status |-> "error", message |-> "database error"], anoms>>}
    ELSE LET cur == RowsOn(table, d)
             found == DetectAll(cur, files, d, 1)
         IN IF cur = {} THEN {<<[status |-> "success", anomalies_found |-> 0], anoms>>}
            ELSE {IF ~ins[1]
                  THEN <<[status |-> "error",
                          message |-> "Data truncated for column 'dimension'"], anoms>>
                  ELSE <<[status |-> "success", anomalies_found |-> BagCardinality(found)],
                         StoreAnomalies(anoms, d, ins[2])>> :
                     ins \in Inserted(found, enum)}

-----------------------------------------------------------------------------
(* TrendAgent *)

\* df.filter(pl.col(col) == key): a comparison with the null key selects no row
EqFilter(rows, col, key) == IF key = NullStr THEN {} ELSE {r \in rows : r[col] = key}

\* the elements of a set of numbers in increasing order
RECURSIVE SortedSeq(_)
SortedSeq(S) ==
    IF S = {} THEN << >>
    ELSE LET m == CHOOSE x \in S : \A y \in S : x <= y IN <<m>> \o SortedSeq(S \ {m})

RECURSIVE SeqSum(_, _)
SeqSum(s, i) == IF i > Len(s) THEN 0 ELSE s[i] + SeqSum(s, i + 1)

\* squares of the two-sided 5% points of Student's t by degrees of freedom
\* (1 .. 29, for the 3 .. 31 days of a window), to twelve decimals, rounded up;
\* each is written as its integer part and three groups of four decimals
TCritSq ==
    <<<<161, 4476, 3879, 7589>>,
     <<18, 5128, 2051, 2821>>,
     <<10, 1279, 6448, 6014>>,
     <<7, 7086, 4742, 2177>>,
     <<6, 6078, 9097, 3704>>,
     <<5, 9873, 7760, 7274>>,
     <<5, 5914, 4785, 1221>>,
     <<5, 3176, 5507, 1579>>,
     <<5, 1173, 5502, 9200>>,
     <<4, 9646, 274, 3731>>,
     <<4, 8443, 3567, 4944>>,
     <<4, 7472, 2534, 6723>>,
     <<4, 6671, 9273, 1827>>,
     <<4, 6001, 993, 6670>>,
     <<4, 5430, 7716, 5267>>,
     <<4, 4939, 9847, 7667>>,
     <<4, 4513, 2177, 2469>>,
     <<4, 4138, 7341, 9171>>,
     <<4, 3807, 4969, 2332>>,
     <<4, 3512, 4350, 3330>>,
     <<4, 3247, 9374, 3184>>,
     <<4, 3009, 4950, 1778>>,
     <<4, 2793, 4430, 9145>>,
     <<4, 2596, 7727, 2691>>,
     <<4, 2416, 9905, 278>>,
     <<4, 2252, 127, 3128>>,
     <<4, 2100, 846, 8360>>,
     <<4, 1959, 7181, 8558>>,
     <<4, 1829, 6428, 9059>>>>

\* c * 10^12 of such an entry as a big number
BigOfGroups(g) == [i \in DOMAIN g |-> g[Len(g) + 1 - i]]

\* stats.linregress(x, y) with x = 0, 1, ..: the sums of squares, times n
Sxy(y) == Len(y) * SeqSum([i \in DOMAIN y |-> (i - 1) * y[i]], 1)
            - SeqSum([i \in DOMAIN y |-> i - 1], 1) * SeqSum(y, 1)
Sxx(y) == Len(y) * SeqSum([i \in DOMAIN y |-> (i - 1) * (i - 1)], 1)
            - SeqSum([i \in DOMAIN y |-> i - 1], 1) * SeqSum([i \in DOMAIN y |-> i - 1], 1)
Syy(y) == Len(y) * SeqSum([i \in DOMAIN y |-> y[i] * y[i]], 1) - SeqSum(y, 1) * SeqSum(y, 1)

\* p_value < significance_threshold (0.05): the square of the t statistic of
\* the slope, df r^2 / (1 - r^2) with r^2 = Sxy^2 / (Sxx Syy), is beyond the
\* squared 5% point c, that is (df + c) Sxy^2 > c Sxx Syy; a constant series
\* has r = 0 and p = 1
PBelowAlpha(y) ==
    LET df == Len(y) - 2
        c == BigOfGroups(TCritSq[df])
        sq == BigMul(BigOf(Abs(Sxy(y))), BigOf(Abs(Sxy(y))))
    IN /\ Syy(y) # 0
       /\ BigLess(BigMul(c, BigMul(BigOf(Sxx(y)), BigOf(Syy(y)))),
                  BigMul(BigAdd(BigScale(<<0, 0, 0, 1>>, df, 0), c, 0), sq))

\* TrendAgent.calculate_trend; strength in thousandths of a percent, and the
\* p-value kept as the side of the threshold it falls on
calculate_trend(y) ==
    IF Len(y) < 3 THEN [direction |-> "STABLE", strength |-> 0, significance |-> "p >= alpha"]
    ELSE [direction |-> IF PBelowAlpha(y)
                        THEN IF Sxy(y) > 0 THEN "UP"
                             ELSE IF Sxy(y) < 0 THEN "DOWN" ELSE "STABLE"
                        ELSE "STABLE",
          strength |-> IF y[1] # 0 THEN ((y[Len(y)] - y[1]) * 100000) \div y[1] ELSE 0,
          significance |-> IF PBelowAlpha(y) THEN "p < alpha" ELSE "p >= alpha"]

\* the daily counts of a key, in date order
CountSeries(rows, col, key) ==
    LET ds == SortedSeq(DaysOf(EqFilter(rows, col, key)))
    IN [i \in DOMAIN ds |-> CountOn(rows, col, key, ds[i])]

TrendRow(rows, d, dim, key, w) ==
    LET y == CountSeries(rows, DimCol[dim], key)
        t == calculate_trend(y)
    IN [trend_date |-> d, dimension |-> dim, dimension_key |-> Str(key),
        metric_value |-> IF Len(y) > 0 THEN y[Len(y)] ELSE 0,
        trend_direction |-> t.direction, trend_strength |-> t.strength,
        window_days |-> w, significance |-> t.significance]

\* all_trends: one record per dimension, window and key seen on at least 3 days
AllTrends(table, d) ==
    LET keys(dm, w) == {k \in KeysOf(RowsBetween(table, d - w, d), DimCol[dm]) :
                          Len(CountSeries(RowsBetween(table, d - w, d), DimCol[dm], k)) >= 3}
        cases == UNION {{[dim |-> dm, w |-> w, key |-> k] : k \in keys(dm, w)} :
                          dm \in SeqToSet(dimensions), w \in SeqToSet(windows)}
    IN BagMap(SetToBag(cases),
              LAMBDA c : TrendRow(RowsBetween(table, d - c.w, d), d, c.dim, c.key, c.w))

ReplaceTrends(table, d, rows) ==
    BagFilter(table, LAMBDA r : r.trend_date # d) (+) rows

\* TrendAgent.run: the possible <<result, daily_trends afterwards>>
TrendRun(table, trs, d, db_fails, enum) ==
    IF db_fails THEN {<<[status |-> "error", message |-> "database error"], trs>>}
    ELSE LET found == AllTrends(table, d)
         IN {IF ~ins[1]
             THEN <<[status |-> "error",
                     message |-> "Data truncated for column 'dimension'"], trs>>
             ELSE <<[status |-> "success", trends_calculated |-> BagCardinality(found)],
                    IF found # EmptyBag THEN ReplaceTrends(trs, d, ins[2]) ELSE trs>> :
                ins \in Inserted(found, enum)}

-----------------------------------------------------------------------------
(* VariationAgent *)

variation_threshold == 15

VariationDims == <<"Type", "Region", "Exchange", "City", "RCA", "Total">>

\* the rows of key_df: the frame of one key (every row for the dimension Total)
KeyRows(rows, dim, key) ==
    IF dim = "Total" THEN rows ELSE EqFilter(rows, DimCol[dim], key)

\* key_df.filter(a <= sr_open_dt <= b)["count"]: <<sum, number of days>>
CountsIn(rows, a, b) ==
    LET sel == RowsBetween(rows, a, b)
    IN <<Cardinality(sel), Cardinality(DaysOf(sel))>>

\* ["count"].mean() or 0, as a fraction <<numerator, denominator>>
MeanOrZero(c) == IF c[2] = 0 THEN <<0, 1>> ELSE c

\* ["count"].sum(), as a fraction
SumFrac(c) == <<c[1], 1>>

Milli(q) == (1000 * q[1]) \div q[2]

\* a sum or a mean as the float the frame holds
FloatOf(q) == FlOfRatio(q[1], q[2])

\* ((current - previous) / previous) * 100 in floats, previous not zero
variation_percent_of(current, previous) ==
    The({FlMul(FlDiv(FlSub(FloatOf(current), prev), prev), FlOfInt(100)) :
            prev \in {FloatOf(previous)}})

\* VariationAgent.calculate_variation on two values (fractions), self.variation_threshold
\* being the threshold that load_config read; variation_percent in thousandths
\* (the floor of the float). The float is within one part in 2^48 of the exact
\* quotient num / den, so it is computed only where that can matter: when the
\* exact percentage is a whole number of thousandths or the threshold itself,
\* and some step of the computation has to round.
calculate_variation_at(current, previous, threshold) ==
    The({IF prev[1] = 0
         THEN IF cur[1] > 0
              THEN [variation_percent |-> 100000, is_significant |-> TRUE]
              ELSE [variation_percent |-> 0, is_significant |-> FALSE]
         ELSE LET num == cur[1] * prev[2] - prev[1] * cur[2]
                  den == prev[1] * cur[2]
                  unrounded == \/ num = 0
                               \/ /\ FlExact(cur[1], cur[2])
                                  /\ FlExact(prev[1], prev[2])
                                  /\ FlExact(num, den)
              IN [variation_percent |->
                      IF unrounded \/ (num * 100000) % den # 0 THEN (num * 100000) \div den
                      ELSE FlFloor(variation_percent_of(cur, prev), 1000),
                  is_significant |->
                      IF unrounded \/ Abs(num) * 100 # threshold * den
                      THEN Abs(num) * 100 >= threshold * den
                      ELSE ~FlAbsLess(variation_percent_of(cur, prev), FlOfInt(threshold))] :
            cur \in {current}, prev \in {previous}})

\* the same with the default threshold, which the pipeline runs with
calculate_variation(current, previous) ==
    calculate_variation_at(current, previous, variation_threshold)

VariationRow(d, dim, key, type, current, previous) ==
    The({[variation_date |-> d, dimension |-> dim, dimension_key |-> Str(key),
          current_value |-> Milli(current), previous_value |-> Milli(previous),
          variation_type |-> type,
          variation_percent |-> var.variation_percent,
          is_significant |-> IF var.is_significant THEN 1 ELSE 0] :
            var \in {calculate_variation(current, previous)}})

\* first day of the current week (Monday)
WeekStart(d) == d - Weekday(d)

\* last day of the previous-month window of the MOM comparison
PrevMonthEnd(d) == PrevMonthStart(d) + (d - MonthStart(d))

\* the three records of one key
KeyVariation(kr, d, dim, key, type) ==
    CASE type = "DOD" ->
           VariationRow(d, dim, key, "DOD", SumFrac(CountsIn(kr, d, d)),
                        SumFrac(CountsIn(kr, d - 7, d - 7)))
      [] type = "WOW" ->
           VariationRow(d, dim, key, "WOW", MeanOrZero(CountsIn(kr, WeekStart(d), d)),
                        MeanOrZero(CountsIn(kr, WeekStart(d) - 7, d - 7)))
      [] type = "MOM" ->
           VariationRow(d, dim, key, "MOM", MeanOrZero(CountsIn(kr, MonthStart(d), d)),
                        MeanOrZero(CountsIn(kr, PrevMonthStart(d), PrevMonthEnd(d))))

\* the keys found for the target date in one dimension
ActiveKeys(df, d, dim) ==
    IF dim = "Total" THEN (IF RowsOn(df, d) = {} THEN {} ELSE {"Total"})
    ELSE KeysOf(RowsOn(df, d), DimCol[dim])

\* all_variations, as a bag
AllVariations(table, d) ==
    LET df == RowsBetween(table, PrevMonthStart(d), d)
        cases == {c \in [dim : SeqToSet(VariationDims),
                         key : {"Total"} \cup UNION {KeysOf(df, DimCol[dm]) : dm \in SeqToSet(dimensions)},
                         type : {"DOD", "WOW", "MOM"}] :
                    c.key \in ActiveKeys(df, d, c.dim)}
    IN BagMap(SetToBag(cases),
              LAMBDA c : KeyVariation(KeyRows(df, c.dim, c.key), d, c.dim, c.key, c.type))

ReplaceVariations(table, d, rows) ==
    BagFilter(table, LAMBDA r : r.variation_date # d) (+) rows

\* VariationAgent.run: the possible <<result, daily_variations afterwards>>
VariationRun(table, vs, d, db_fails, enum) ==
    IF db_fails THEN {<<[status |-> "error", message |-> "database error"], vs>>}
    ELSE The({{IF ~ins[1]
               THEN <<[status |-> "error",
                       message |-> "Data truncated for column 'dimension'"], vs>>
               ELSE <<[status |-> "success",
                       variations_calculated |-> BagCardinality(found)],
                      IF found # EmptyBag THEN ReplaceVariations(vs, d, ins[2]) ELSE vs>> :
                  ins \in Inserted(found, enum)} :
                 found \in {AllVariations(table, d)}})

-----------------------------------------------------------------------------
(* CorrelationAgent *)

AnomaliesOn(anoms, d) == BagFilter(anoms, LAMBDA r : r.anomaly_date = d)

CorrelationWindow == 30
TopLimit == 5
MinPoints == 3

\* get_series: the days of a value of a column, with their counts
SeriesDays(rows, col, val) == DaysOf(EqFilter(rows, col, val))

\* pl.corr("count", "count_2") over the days both series have, times n * n:
\* covariance and the two variances
Cov(rows, c1, v1, c2, v2, days) ==
    Cardinality(days) * SumOver(days, [d \in days |-> CountOn(rows, c1, v1, d) * CountOn(rows, c2, v2, d)])
      - SumOver(days, [d \in days |-> CountOn(rows, c1, v1, d)])
          * SumOver(days, [d \in days |-> CountOn(rows, c2, v2, d)])

\* corr > 0.7 (a zero variance gives NaN, which is not above 0.7)
Correlated(rows, c1, v1, c2, v2, days) ==
    LET xy == Cov(rows, c1, v1, c2, v2, days)
        p == Cov(rows, c1, v1, c1, v1, days) * Cov(rows, c2, v2, c2, v2, days)
    IN p > 0 /\ xy > 0 /\ 100 * xy * xy > 49 * p

\* f"{corr:.2f}" of a correlation above 0.7, in hundredths
CorrCenti(rows, c1, v1, c2, v2, days) ==
    LET xy == Cov(rows, c1, v1, c2, v2, days)
        p == Cov(rows, c1, v1, c1, v1, days) * Cov(rows, c2, v2, c2, v2, days)
    IN CHOOSE k \in 70..100 :
          /\ (2 * k - 1) * (2 * k - 1) * p <= 40000 * xy * xy
          /\ (k = 100 \/ 40000 * xy * xy < (2 * k + 1) * (2 * k + 1) * p)

\* the candidate series, in order: the top types unless the anomaly is a Type,
\* then the top regions unless it is a Region
Targets(dim, top_types, top_regions) ==
    (IF dim # "Type" THEN [i \in DOMAIN top_types |-> <<"sr_type", top_types[i]>>] ELSE << >>)
      \o (IF dim # "Region" THEN [i \in DOMAIN top_regions |-> <<"region", top_regions[i]>>]
          ELSE << >>)

\* the list `correlations` of one anomaly
Correlations(rows, r, top_types, top_regions) ==
    LET col == DimCol[r.dimension]
        s1 == SeriesDays(rows, col, r.dimension_key)
        ts == Targets(r.dimension, top_types, top_regions)
        hit(t) == LET days == s1 \cap SeriesDays(rows, t[1], t[2])
                  IN /\ Cardinality(SeriesDays(rows, t[1], t[2])) >= MinPoints
                     /\ Cardinality(days) >= MinPoints
                     /\ Correlated(rows, col, r.dimension_key, t[1], t[2], days)
        hits == SelectSeq(ts, hit)
    IN IF r.dimension \notin DOMAIN DimCol \/ Cardinality(s1) < MinPoints THEN << >>
       ELSE [i \in DOMAIN hits |->
               <<hits[i][2], CorrCenti(rows, col, r.dimension_key, hits[i][1], hits[i][2],
                                       s1 \cap SeriesDays(rows, hits[i][1], hits[i][2]))>>]

\* a variant that overwrites the context
ReplaceContext(r, label, items) ==
    [r EXCEPT !.rca_context = <<[label |-> label, items |-> items]>>]

\* existing_ctx + " | " + new_ctx: the context is the list of its parts
AppendContext(r, label, items) ==
    [r EXCEPT !.rca_context = Append(@, [label |-> label, items |-> items])]

Correlate(rows, r, d, top_types, top_regions) ==
    LET correlations == IF r.anomaly_date = d
                        THEN Correlations(rows, r, top_types, top_regions) ELSE << >>
    IN IF correlations # << >> THEN AppendContext(r, "Correlated with", correlations) ELSE r

\* CorrelationAgent.run: the possible <<result, daily_anomalies afterwards>>
CorrelationRun(table, anoms, d, db_fails) ==
    LET rows == RowsBetween(table, d - CorrelationWindow, d)
        tops(col) == TopN(KeysOf(rows, col), [k \in KeysOf(rows, col) |-> CountKey(rows, col, k)],
                          TopLimit)
    IN IF db_fails THEN {<<[status |-> "error", message |-> "database error"], anoms>>}
       ELSE IF Unreadable(AnomaliesOn(anoms, d)) THEN {<<[status |-> "error", message |-> "'' is not among the defined enum values"], anoms>>}
       ELSE IF AnomaliesOn(anoms, d) = EmptyBag
       THEN {<<[status |-> "success", correlations_found |-> 0], anoms>>}
       ELSE IF rows = {}
       THEN {<<[status |-> "warning", message |-> "No history for correlation"], anoms>>}
       ELSE {<<[status |-> "success"],
               BagMap(anoms, LAMBDA r : Correlate(rows, r, d, tt, tr))>> :
                 tt \in tops("sr_type"), tr \in tops("region")}

-----------------------------------------------------------------------------
(* RCAAgent *)

\* a dim_map that lost the entry of Exchange
RcaDimColWithoutExchange == [Type |-> "sr_type", Region |-> "region", OLT |-> "olt_id"]

\* dim_map of RCAAgent.run: no column of the table is mapped for City
RcaDimCol == [Type |-> "sr_type", Region |-> "region", Exchange |-> "exc_id", OLT |-> "olt_id"]

TopRca == 3

\* the rows of the anomaly's scope on the target date
ScopeRows(table, r, d) ==
    IF r.dimension \in DOMAIN RcaDimCol
    THEN EqFilter(RowsOn(table, d), RcaDimCol[r.dimension], r.dimension_key)
    ELSE {}

\* the anomalies that get a "Probable RCA" text
RcaEligible(table, r, d) ==
    /\ r.anomaly_date = d
    /\ r.dimension # "RCA"
    /\ r.dimension \in DOMAIN RcaDimCol
    /\ ScopeRows(table, r, d) # {}

\* the possible top_rca frames of a scope: the rca values by falling frequency
TopRcaOrders(scope) ==
    TopN(KeysOf(scope, "rca"), [k \in KeysOf(scope, "rca") |-> CountKey(scope, "rca", k)], TopRca)

\* f"{pct:.1f}" of pct = (len / total) * 100, in tenths: the float is
\* computed where the exact percentage is half way between two tenths
RcaPct(len, total) ==
    IF HalfWay(1000 * len, total)
    THEN FlRound(FlMul(FlOfRatio(len, total), FlOfInt(100)), 10)
    ELSE SignedRound(1000 * len, total)

\* f"{row['rca']} ({pct:.1f}%)", the percentage in tenths
RcaItems(scope, order) ==
    [i \in DOMAIN order |->
        <<Str(order[i]), RcaPct(CountKey(scope, "rca", order[i]), Cardinality(scope))>>]

\* the rows of a table one by one: copy i of row r is <<r, i>>
CopiesOf(B) ==
    UNION {{<<r, i>> : i \in 1..CopiesIn(r, B)} : r \in BagToSet(B)}

\* the table whose rows are f[c], c ranging over the copies cs
TableOf(cs, f) ==
    [t \in {f[c] : c \in cs} |-> Cardinality({c \in cs : f[c] = t})]

\* one choice of frame order per eligible anomaly row: the query, group_by
\* and sort run once for every row of the loop, so two rows that are equal
\* in every column may still see the tied groups in different orders
RECURSIVE OrderChoices(_, _, _)
OrderChoices(table, cs, d) ==
    IF cs = {} THEN {<< >>}
    ELSE LET c == CHOOSE x \in cs : TRUE
         IN {(c :> o) @@ g : o \in TopRcaOrders(ScopeRows(table, c[1], d)),
                             g \in OrderChoices(table, cs \ {c}, d)}

\* RCAAgent.run: the possible <<result, daily_anomalies afterwards>>
RCARun(table, anoms, d, db_fails) ==
    LET elig == {c \in CopiesOf(anoms) : RcaEligible(table, c[1], d)}
    IN IF db_fails THEN {<<[status |-> "error", message |-> "database error"], anoms>>}
       ELSE IF Unreadable(AnomaliesOn(anoms, d)) THEN {<<[status |-> "error", message |-> "'' is not among the defined enum values"], anoms>>}
       ELSE {<<[status |-> "success", updates |-> Cardinality(elig)],
               TableOf(CopiesOf(anoms),
                       [c \in CopiesOf(anoms) |->
                           IF c \in elig
                           THEN AppendContext(c[1], "Probable RCA",
                                              RcaItems(ScopeRows(table, c[1], d), ch[c]))
                           ELSE c[1]])>> :
                 ch \in OrderChoices(table, elig, d)}

-----------------------------------------------------------------------------
(* SeverityAgent *)

WidespreadRegions == 3

IsPersistent(anoms, r, d) ==
    \E p \in BagToSet(anoms) :
        /\ p.anomaly_date = d - 1
        /\ p.dimension = r.dimension
        /\ p.dimension_key = r.dimension_key

IsWidespread(anoms, d) ==
    BagCardinality(BagFilter(anoms, LAMBDA r : r.anomaly_date = d /\ r.dimension = "Region"))
        > WidespreadRegions

\* a variant that derives the severity from persistence and spread alone
NewSeverityRecomputed(anoms, r, d) ==
    IF IsPersistent(anoms, r, d) \/ (IsWidespread(anoms, d) /\ r.dimension = "Type")
    THEN "CRITICAL"
    ELSE "WARNING"

\* new_severity of one anomaly
NewSeverity(anoms, r, d) ==
    IF r.severity = "WARNING"
       /\ (IsPersistent(anoms, r, d) \/ (IsWidespread(anoms, d) /\ r.dimension = "Type"))
    THEN "CRITICAL"
    ELSE r.severity

\* a variant that refines the anomalies of every date
RefineAnyDate(anoms, r, d) == [r EXCEPT !.severity = NewSeverity(anoms, r, d)]

\* the loop body, which runs over the anomalies of the target date
Refine(anoms, r, d) ==
    IF r.anomaly_date = d THEN [r EXCEPT !.severity = NewSeverity(anoms, r, d)] ELSE r

\* SeverityAgent.run: <<result, daily_anomalies afterwards>>
SeverityRun(anoms, d, db_fails) ==
    IF db_fails THEN <<[status |-> "error", message |-> "database error"], anoms>>
    ELSE IF Unreadable(AnomaliesOn(anoms, d)) THEN <<[status |-> "error", message |-> "'' is not among the defined enum values"], anoms>>
    ELSE <<[status |-> "success"], BagMap(anoms, LAMBDA r : Refine(anoms, r, d))>>

-----------------------------------------------------------------------------
(* NarratorAgent *)

\* f"{x:.1f}" of the float nearest to v thousandths, in tenths
TenthsOfFloat(v) == FlRound(FlOfDecimal(v, 1000), 10)

\* f"{anomaly.baseline_avg:.1f}": baseline_avg is held in thousandths, rounded
\* down. A value held as x.x50 is that float or one above it, which the
\* thousandths do not tell apart (a mean of up to 30 daily counts is the first)
BaselinePrints(v) ==
    IF v % 100 < 50 THEN {v \div 100}
    ELSE IF v % 100 > 50 THEN {v \div 100 + 1}
    ELSE {TenthsOfFloat(v), v \div 100 + 1}

\* f"{anomaly.z_score:.1f}": z_score is held in thousandths, rounded up. A
\* value held as x.x50 is that float or one below it
DeviationPrints(z) ==
    IF z % 100 < 50 THEN {z \div 100}
    ELSE IF z % 100 > 50 THEN {z \div 100 + 1}
    ELSE {TenthsOfFloat(z), z \div 100}

\* the anomalies the loop writes an insight for
Narrated(anoms, d) == BagFilter(anoms, LAMBDA r : r.anomaly_date = d /\ r.severity # "INFO")

\* the ways the two numbers of the summaries can print, one per anomaly
RECURSIVE PrintChoices(_)
PrintChoices(rs) ==
    IF rs = {} THEN {<< >>}
    ELSE LET r == CHOOSE x \in rs : TRUE
         IN {(r :> [baseline |-> b, deviation |-> z]) @@ g :
                b \in BaselinePrints(r.baseline_avg), z \in DeviationPrints(r.z_score),
                g \in PrintChoices(rs \ {r})}

Prints(anoms, d) == PrintChoices(BagToSet(Narrated(anoms, d)))

\* the ExecInsights row of one anomaly: numbers as the summary prints them
Insight(r, d, print) ==
    [created_at |-> d,
     title |-> [key |-> r.dimension_key, dimension |-> r.dimension],
     summary |-> [date |-> d, complaints |-> r.metric_value,
                  baseline |-> print.baseline,
                  deviation |-> print.deviation,
                  severity |-> r.severity, context |-> r.rca_context],
     severity |-> r.severity]

NewInsights(anoms, d, prints) ==
    BagMap(Narrated(anoms, d), LAMBDA r : Insight(r, d, prints[r]))

\* NarratorAgent.run: <<result, exec_insights afterwards>>
NarratorRun(anoms, ins, d, db_fails, prints) ==
    IF db_fails THEN <<[status |-> "error", message |-> "database error"], ins>>
    ELSE IF Unreadable(AnomaliesOn(anoms, d)) THEN <<[status |-> "error", message |-> "'' is not among the defined enum values"], ins>>
    ELSE <<[status |-> "success", insights |-> BagCardinality(NewInsights(anoms, d, prints))],
           ins (+) NewInsights(anoms, d, prints)>>

-----------------------------------------------------------------------------
(* Orchestrator *)

\* the invocations: python -m complaints_ai.orchestrator [--file F] --date D
\* [--baseline] [--no-ingest], and the dashboard's run_pipeline calls
\* (an invocation that returns at the ingestion step, or that is told to skip
\* it, is taken with one choice of the arguments it does not read or that do
\* not tell it apart from the invocation without a file; the day of the
\* redated export is run once, with that export and --baseline)
InputArgs ==
    {a \in [file_path : {NoArg} \cup FileNames, target_date : TargetDates,
            run_ingestion : BOOLEAN, run_baseline : BOOLEAN] :
        \/ a.target_date # 15 /\ a.run_ingestion /\ a.file_path \in {NoArg, "all", "redated"}
        \/ a.target_date = 13 /\ ~a.run_baseline /\ (a.run_ingestion <=> a.file_path # "all")
        \/ a.target_date = 15 /\ a.run_ingestion /\ a.run_baseline /\ a.file_path = "redated"}

NoArgs == [file_path |-> NoArg, target_date |-> NullNum,
           run_ingestion |-> FALSE, run_baseline |-> FALSE]

\* the row with row_id ROW_count of the dummy file: row i of its day
DummyRow(count, target_date) ==
    LET current_dt == IF count <= 600 THEN target_date - 30 + (count - 1) \div 20
                      ELSE target_date
        i == IF count <= 600 THEN (count - 1) % 20 ELSE count - 601
        lahore == i < 5
        karachi == ~lahore /\ (i < 10 \/ (current_dt = target_date /\ i < 80))
    IN [sr_row_id |-> "ROW_" \o ToString(count),
        sr_open_dttm |-> 24 * current_dt + 10 + (i % 10),
        sr_type |-> "Internet",
        region |-> IF lahore THEN "Lahore" ELSE IF karachi THEN "Karachi" ELSE "Islamabad",
        exc_id |-> IF lahore THEN "Cantt" ELSE IF karachi THEN "Clifton" ELSE "F-8",
        olt_id |-> "OLT1",
        rca |-> IF karachi /\ current_dt = target_date THEN "Power Outage" ELSE "Fiber Cut",
        status |-> "Closed", vendor |-> "Huawei", product_id |-> "GPON",
        cabinet_id |-> "Cab1", sr_sub_type |-> "Slow Speed"]

\* create_dummy_data of verify_pipeline_daily.py: 20 rows for each of the 30
\* days before target_date and 100 rows for target_date, under a header that
\* has sr_row_id and no sr_number
create_dummy_data(target_date) ==
    [exists |-> TRUE,
     columns |-> {"sr_row_id", "sr_open_dttm", "sr_type", "region", "exc_id", "olt_id",
                  "rca", "status", "vendor", "product_id", "cabinet_id", "sr_sub_type"},
     rows |-> [count \in 1..700 |-> DummyRow(count, target_date)]]

\* the file verify_pipeline writes before it calls run_pipeline
VerifyFile == "test_complaints_daily.csv"

\* the arguments of verify_pipeline's call of run_pipeline
VerifyArgs(target_date) ==
    [file_path |-> VerifyFile, target_date |-> target_date,
     run_ingestion |-> TRUE, run_baseline |-> TRUE]

\* the file an invocation reads
FileAt(a) ==
    IF a.file_path = VerifyFile THEN create_dummy_data(a.target_date) ELSE Files[a.file_path]

\* one ALTER TABLE ... MODIFY COLUMN dimension ENUM(...): a server in strict
\* SQL mode refuses it while a row holds a value the new ENUM lacks, another
\* one turns such values into ''. <<altered, rows afterwards>>
AlterDimension(rows, strict) ==
    IF Fits(rows, UpdatedEnum) THEN <<TRUE, rows>>
    ELSE IF strict THEN <<FALSE, rows>>
    ELSE <<TRUE, Truncated(rows, UpdatedEnum)>>

\* update_db_schema.py: the three statements in turn, each committed as it is
\* executed; the script stops at the first one the server refuses
update_db_schema(an, tr, va, alt, strict) ==
    LET a == AlterDimension(an, strict)
        t == AlterDimension(tr, strict)
        v == AlterDimension(va, strict)
    IN IF ~a[1]
       THEN [anomalies |-> an, trends |-> tr, variations |-> va, altered |-> alt]
       ELSE IF ~t[1]
       THEN [anomalies |-> a[2], trends |-> tr, variations |-> va,
             altered |-> alt \cup {"daily_anomalies"}]
       ELSE IF ~v[1]
       THEN [anomalies |-> a[2], trends |-> t[2], variations |-> va,
             altered |-> alt \cup {"daily_anomalies", "daily_trends"}]
       ELSE [anomalies |-> a[2], trends |-> t[2], variations |-> v[2],
             altered |-> alt \cup {"daily_anomalies", "daily_trends", "daily_variations"}]

\* a database failure can hit a stage while the budget of failures lasts
Fault == IF faults < MaxFaults THEN BOOLEAN ELSE {FALSE}

Charge(f) == IF f THEN faults + 1 ELSE faults

Record(stage, res) == Append(trace, [stage |-> stage, res |-> res])

Stages(tr) == [i \in DOMAIN tr |-> tr[i].stage]

\* the result of a stage of the invocation, NoResult if it did not run
ResultOf(tr, stage) ==
    IF \E i \in DOMAIN tr : tr[i].stage = stage
    THEN tr[CHOOSE i \in DOMAIN tr : tr[i].stage = stage].res
    ELSE NoResult

\* anom_res.get('anomalies_found', 0)
AnomaliesFound(res) == IF "anomalies_found" \in DOMAIN res THEN res.anomalies_found ELSE 0

\* did a stage of the invocation return status error
HasError(tr) == \E i \in DOMAIN tr : tr[i].res.status = "error"

\* what an invocation finds when it starts: the target date and the result of
\* the invocation before it, and the tables and artifacts as that one left them
Snapshot(a, res, rw, bl, an, tr, va, ins) ==
    [target_date |-> a.target_date, result |-> res,
     raw |-> rw, baselines |-> bl, anomalies |-> an, trends |-> tr,
     variations |-> va, insights |-> ins]

\* a variant that carries on after a failed ingestion
IngestionFailedIgnored(res) == FALSE

\* if result['status'] == 'error': return result
IngestionFailed(res) == res.status = "error"

\* if anom_res['status'] == 'success'
AnomalySucceeded(anom_res) == anom_res.status = "success"

\* a variant that runs the four last stages whatever was found
AnomaliesDetectedAlways(anom_res) == TRUE

\* if anom_res.get('anomalies_found', 0) > 0
AnomaliesDetected(anom_res) == AnomaliesFound(anom_res) > 0

\* the value run_pipeline returns at its end
final_result(tr) ==
    IF ResultOf(tr, "Ingestion") # NoResult
    THEN [status |-> "success", message |-> "Pipeline completed successfully",
          diagnostics |-> [rows_read |-> ResultOf(tr, "Ingestion").processed_rows]]
    ELSE [status |-> "success", message |-> "Pipeline completed successfully"]

\* the process exit code of the command line: run_pipeline's result is dropped
ExitCode(res) == 0

Init ==
    /\ legacy_schema \in BOOLEAN
    /\ altered = {}
    /\ raw = {}
    /\ baselines = [dim \in SeqToSet(dimensions) |-> NoFile]
    /\ anomalies = EmptyBag
    /\ trends = EmptyBag
    /\ variations = EmptyBag
    /\ insights = EmptyBag
    /\ mttr = EmptyBag
    /\ aging = EmptyBag
    /\ session = NoSession
    /\ pc = "idle"
    /\ args = NoArgs
    /\ trace = << >>
    /\ result = NoResult
    /\ runs = 0
    /\ faults = 0
    /\ hist = Snapshot(NoArgs, NoResult, {}, [dim \in SeqToSet(dimensions) |-> NoFile],
                        EmptyBag, EmptyBag, EmptyBag, EmptyBag)

StartPipeline ==
    /\ pc = "idle"
    /\ runs < MaxRuns
    /\ \E a \in InputArgs :
          /\ args' = a
          /\ pc' = IF a.run_ingestion /\ a.file_path # NoArg THEN "ingestion" ELSE "validation"
    /\ runs' = runs + 1
    /\ trace' = << >>
    /\ result' = NoResult
    /\ hist' = Snapshot(args, result, raw, baselines, anomalies, trends, variations, insights)
    /\ UNCHANGED <<mttr, aging, session,
                   legacy_schema, altered, raw, baselines, anomalies, trends, variations, insights,
                   faults>>

\* verify_pipeline of verify_pipeline_daily.py up to its call of run_pipeline:
\* the rows of ComplaintsRaw, DailyAnomalies, DailyTrends and ExecInsights are
\* deleted, the dummy file is written for today's date, and the pipeline is
\* started on it with ingestion and baseline
VerifyPipeline ==
    /\ pc = "idle"
    /\ runs < MaxRuns
    /\ \E today \in TargetDates : args' = VerifyArgs(today)
    /\ pc' = "ingestion"
    /\ raw' = {}
    /\ anomalies' = EmptyBag
    /\ trends' = EmptyBag
    /\ insights' = EmptyBag
    /\ runs' = runs + 1
    /\ trace' = << >>
    /\ result' = NoResult
    /\ hist' = Snapshot(NoArgs, NoResult, {}, baselines, EmptyBag, EmptyBag, variations,
                        EmptyBag)
    /\ UNCHANGED <<mttr, aging, session, legacy_schema, altered, baselines, variations,
                   faults>>

\* reset_database of reset_db.py: drop_all and create_all leave every table
\* empty and as db/models.py defines it; no invocation has run on the new tables
ResetDatabase ==
    /\ pc = "idle"
    /\ runs < MaxRuns
    /\ raw' = {}
    /\ anomalies' = EmptyBag
    /\ trends' = EmptyBag
    /\ variations' = EmptyBag
    /\ insights' = EmptyBag
    /\ mttr' = EmptyBag
    /\ aging' = EmptyBag
    /\ legacy_schema' = FALSE
    /\ altered' = {}
    /\ runs' = runs + 1
    /\ args' = NoArgs
    /\ trace' = << >>
    /\ result' = NoResult
    /\ hist' = Snapshot(NoArgs, NoResult, {}, baselines, EmptyBag, EmptyBag, EmptyBag,
                        EmptyBag)
    /\ UNCHANGED <<session, baselines, pc, faults>>

\* update_db_schema.py run between two invocations
UpdateDbSchema ==
    /\ pc = "idle"
    /\ runs < MaxRuns
    /\ \E strict \in BOOLEAN :
          \E out \in {update_db_schema(anomalies, trends, variations, altered, strict)} :
             /\ anomalies' = out.anomalies
             /\ trends' = out.trends
             /\ variations' = out.variations
             /\ altered' = out.altered
             /\ hist' = Snapshot(NoArgs, NoResult, raw, baselines, out.anomalies, out.trends,
                                 out.variations, insights)
    /\ runs' = runs + 1
    /\ args' = NoArgs
    /\ trace' = << >>
    /\ result' = NoResult
    /\ UNCHANGED <<mttr, aging, session, legacy_schema, raw, baselines, insights, pc,
                   faults>>

\* step 1, and the return of the ingestion result on error
Ingestion ==
    /\ pc = "ingestion"
    /\ \E f \in Fault :
          \E out \in {IngestionRun(raw, FileAt(args), f)} :
             /\ raw' = out[2]
             /\ trace' = Record("Ingestion", out[1])
             /\ faults' = Charge(f /\ out[1] = [status |-> "error", message |-> "database error"])
             /\ IF IngestionFailed(out[1])
                THEN /\ pc' = "idle"
                     /\ result' = out[1]
                ELSE /\ pc' = "validation"
                     /\ UNCHANGED result
    /\ UNCHANGED <<mttr, aging, session,
                   legacy_schema, altered, baselines, anomalies, trends, variations, insights,
                   args, runs, hist>>

Validation ==
    /\ pc = "validation"
    /\ \E f \in Fault :
          /\ trace' = Record("Validation", ValidationRun(raw, legacy_schema, args.target_date, f))
          /\ faults' = Charge(f)
    /\ pc' = IF args.run_baseline THEN "baseline" ELSE "anomaly"
    /\ UNCHANGED <<mttr, aging, session,
                   legacy_schema, altered, raw, baselines, anomalies, trends, variations, insights,
                   args, result, runs, hist>>

Baseline ==
    /\ pc = "baseline"
    /\ \E f \in Fault :
          \E out \in {BaselineRun(raw, baselines, legacy_schema, args.target_date, f)} :
             /\ baselines' = out[2]
             /\ trace' = Record("Baseline", out[1])
             /\ faults' = Charge(f)
    /\ pc' = "anomaly"
    /\ UNCHANGED <<mttr, aging, session,
                   legacy_schema, altered, raw, anomalies, trends, variations, insights,
                   args, result, runs, hist>>

Anomaly ==
    /\ pc = "anomaly"
    /\ \E f \in Fault :
          \E out \in AnomalyRun(raw, baselines, anomalies, args.target_date, f,
                                DimEnum(altered, "daily_anomalies")) :
             /\ anomalies' = out[2]
             /\ trace' = Record("Anomaly", out[1])
             /\ faults' = Charge(f)
             /\ pc' = IF AnomalySucceeded(out[1]) THEN "trend" ELSE "finish"
    /\ UNCHANGED <<mttr, aging, session,
                   legacy_schema, altered, raw, baselines, trends, variations, insights,
                   args, result, runs, hist>>

Trend ==
    /\ pc = "trend"
    /\ \E f \in Fault :
          \E out \in TrendRun(raw, trends, args.target_date, f,
                              DimEnum(altered, "daily_trends")) :
             /\ trends' = out[2]
             /\ trace' = Record("Trend", out[1])
             /\ faults' = Charge(f)
    /\ pc' = "variation"
    /\ UNCHANGED <<mttr, aging, session,
                   legacy_schema, altered, raw, baselines, anomalies, variations, insights,
                   args, result, runs, hist>>

Variation ==
    /\ pc = "variation"
    /\ \E f \in Fault :
          \E out \in VariationRun(raw, variations, args.target_date, f,
                                  DimEnum(altered, "daily_variations")) :
             /\ variations' = out[2]
             /\ trace' = Record("Variation", out[1])
             /\ faults' = Charge(f)
    /\ pc' = IF AnomaliesDetected(ResultOf(trace, "Anomaly")) THEN "correlation" ELSE "finish"
    /\ UNCHANGED <<mttr, aging, session,
                   legacy_schema, altered, raw, baselines, anomalies, trends, insights,
                   args, result, runs, hist>>

Correlation ==
    /\ pc = "correlation"
    /\ \E f \in Fault :
          \E out \in CorrelationRun(raw, anomalies, args.target_date, f) :
             /\ anomalies' = out[2]
             /\ trace' = Record("Correlation", out[1])
             /\ faults' = Charge(f)
    /\ pc' = "rca"
    /\ UNCHANGED <<mttr, aging, session,
                   legacy_schema, altered, raw, baselines, trends, variations, insights,
                   args, result, runs, hist>>

RCA ==
    /\ pc = "rca"
    /\ \E f \in Fault :
          \E out \in RCARun(raw, anomalies, args.target_date, f) :
             /\ anomalies' = out[2]
             /\ trace' = Record("RCA", out[1])
             /\ faults' = Charge(f)
    /\ pc' = "severity"
    /\ UNCHANGED <<mttr, aging, session,
                   legacy_schema, altered, raw, baselines, trends, variations, insights,
                   args, result, runs, hist>>

Severity ==
    /\ pc = "severity"
    /\ \E f \in Fault :
          \E out \in {SeverityRun(anomalies, args.target_date, f)} :
             /\ anomalies' = out[2]
             /\ trace' = Record("Severity", out[1])
             /\ faults' = Charge(f)
    /\ pc' = "narrator"
    /\ UNCHANGED <<mttr, aging, session,
                   legacy_schema, altered, raw, baselines, trends, variations, insights,
                   args, result, runs, hist>>

Narrator ==
    /\ pc = "narrator"
    /\ \E f \in Fault :
          \E prints \in Prints(anomalies, args.target_date) :
          \E out \in {NarratorRun(anomalies, insights, args.target_date, f, prints)} :
             /\ insights' = out[2]
             /\ trace' = Record("Narrator", out[1])
             /\ faults' = Charge(f)
    /\ pc' = "finish"
    /\ UNCHANGED <<mttr, aging, session,
                   legacy_schema, altered, raw, baselines, anomalies, trends, variations,
                   args, result, runs, hist>>

\* the end of run_pipeline: the aggregated result is returned
Finish ==
    /\ pc = "finish"
    /\ pc' = "idle"
    /\ result' = final_result(trace)
    /\ UNCHANGED <<mttr, aging, session,
                   legacy_schema, altered, raw, baselines, anomalies, trends, variations, insights,
                   args, trace, runs, faults, hist>>

Next ==
    \/ StartPipeline
    \/ VerifyPipeline
    \/ ResetDatabase
    \/ UpdateDbSchema
    \/ Ingestion
    \/ Validation
    \/ Baseline
    \/ Anomaly
    \/ Trend
    \/ Variation
    \/ Correlation
    \/ RCA
    \/ Severity
    \/ Narrator
    \/ Finish

Spec == Init /\ [][Next]_vars

-----------------------------------------------------------------------------
(* Properties *)

\* an invocation has returned, and no script has touched the tables since
Returned == pc = "idle" /\ runs > 0 /\ args # NoArgs

\* the invocation that has just returned repeats the one before it: same target
\* date, both returned the aggregated result, no database failure occurred,
\* and complaints_raw and the baseline artifacts are as the first one left them
Repeated ==
    /\ Returned
    /\ runs >= 2
    /\ faults = 0
    /\ hist.target_date = args.target_date
    /\ hist.result.status = "success"
    /\ result.status = "success"
    /\ hist.raw = raw
    /\ hist.baselines = baselines

TrendsOn(trs, d) == BagFilter(trs, LAMBDA r : r.trend_date = d)

VariationsOn(vs, d) == BagFilter(vs, LAMBDA r : r.variation_date = d)

InsightsOn(ins, d) == BagFilter(ins, LAMBDA r : r.created_at = d)

\* C1: when run_pipeline is run for the same target date D twice in a row and
\* complaints_raw and the baseline artifacts are unchanged between the runs, the
\* rows for D in daily_anomalies, daily_trends and daily_variations after the
\* second run are the rows after the first run
C1_RerunLeavesSameRows ==
    Repeated =>
        /\ AnomaliesOn(anomalies, args.target_date) = AnomaliesOn(hist.anomalies, args.target_date)
        /\ TrendsOn(trends, args.target_date) = TrendsOn(hist.trends, args.target_date)
        /\ VariationsOn(variations, args.target_date) = VariationsOn(hist.variations, args.target_date)

\* C2: after the pipeline has run twice for the same D over the same data,
\* exec_insights holds one insight per WARNING or CRITICAL anomaly of D, not
\* one per run
C2_OneInsightPerAnomaly ==
    Repeated =>
        BagCardinality(InsightsOn(insights, args.target_date))
          = BagCardinality(BagFilter(anomalies,
                LAMBDA r : r.anomaly_date = args.target_date /\ r.severity # "INFO"))

\* C3: whenever the Anomaly stage has returned success for D, the rows of
\* daily_anomalies with anomaly_date = D are exactly the anomalies this run
\* detected, whether it detected some or none (shown already for the runs
\* without a database failure)
C3_RowsAreThisRunsDetections ==
    (pc = "trend" /\ faults = 0) =>
        AnomaliesOn(anomalies, args.target_date)
          = DetectAll(RowsOn(raw, args.target_date), baselines, args.target_date, 1)

\* number of rows of a table that agree with row r on the columns of key(_)
SameKey(table, key(_), r) ==
    BagCardinality(BagFilter(table, LAMBDA q : key(q) = key(r)))

AnomalyKey(r) == <<r.anomaly_date, r.dimension, r.dimension_key>>

TrendKey(r) == <<r.trend_date, r.dimension, r.dimension_key, r.window_days>>

VariationKey(r) == <<r.variation_date, r.dimension, r.dimension_key, r.variation_type>>

\* C4: in every reachable state complaints_raw has no two rows with the same
\* sr_number, and daily_anomalies, daily_trends and daily_variations have no
\* two rows with the same natural key (shown already for the runs without a
\* database failure)
C4_NaturalKeysUnique ==
    faults = 0 =>
        /\ \A r, q \in raw : r["sr_number"] = q["sr_number"] => r = q
        /\ \A r \in BagToSet(anomalies) : SameKey(anomalies, AnomalyKey, r) = 1
        /\ \A r \in BagToSet(trends) : SameKey(trends, TrendKey, r) = 1
        /\ \A r \in BagToSet(variations) : SameKey(variations, VariationKey, r) = 1

\* C5: the baseline average and standard deviation behind the z-score of every
\* anomaly row come only from complaints opened strictly before the row's date
\* (shown already for the runs without a database failure)
C5_BaselineFromEarlierDays ==
    faults = 0 =>
        \A r \in BagToSet(anomalies) : \A day \in r.g_days : day < r.anomaly_date

Rank(severity) == CASE severity = "INFO" -> 0 [] severity = "WARNING" -> 1 [] OTHER -> 2

AfterAnomaly == {"trend", "variation", "correlation", "rca", "severity", "narrator"}

\* the columns no stage after Anomaly writes
Detected(r) == [r EXCEPT !.severity = "", !.rca_context = << >>]

CriticalStays ==
    \A r \in BagToSet(anomalies) : r.z_score > threshold_critical => r.severity = "CRITICAL"

NoDowngrade ==
    pc \in AfterAnomaly =>
        \A r \in BagToSet(anomalies) : \A q \in BagToSet(anomalies') :
            Detected(q) = Detected(r) => Rank(q.severity) >= Rank(r.severity)

\* C6: within a run no stage after Anomaly lowers the severity of an anomaly
\* row (INFO < WARNING < CRITICAL), and a row whose z_score exceeds the critical
\* threshold is CRITICAL in every state from its insertion on
C6_SeverityMonotone == [](CriticalStays) /\ [][NoDowngrade]_vars

\* the Severity stage has raised a WARNING of the target date to CRITICAL, next
\* to a row that was CRITICAL from its insertion
C6_Witness ==
    /\ pc = "narrator"
    /\ \E r \in BagToSet(anomalies) :
          /\ r.anomaly_date = args.target_date
          /\ r.z_score <= threshold_critical
          /\ r.severity = "CRITICAL"
    /\ \E r \in BagToSet(anomalies) :
          r.anomaly_date = args.target_date /\ r.z_score > threshold_critical

DerivedUntouched ==
    /\ baselines = hist.baselines
    /\ anomalies = hist.anomalies
    /\ trends = hist.trends
    /\ variations = hist.variations
    /\ insights = hist.insights

\* C7: when the Ingest stage returns status error, no later stage runs in that
\* invocation, no derived table is modified, and run_pipeline returns the
\* ingestion error result
C7_IngestErrorShortCircuits ==
    (ResultOf(trace, "Ingestion") # NoResult /\ ResultOf(trace, "Ingestion").status = "error") =>
        /\ pc = "idle"
        /\ Stages(trace) = <<"Ingestion">>
        /\ result = ResultOf(trace, "Ingestion")
        /\ DerivedUntouched

\* a file without a required column was offered after an invocation had filled
\* the derived tables
C7_Witness ==
    /\ Returned
    /\ Stages(trace) = <<"Ingestion">>
    /\ result.status = "error"
    /\ result.message = "Schema validation failed"
    /\ anomalies # EmptyBag
    /\ insights # EmptyBag

\* the invocation got past ingestion: it did not return at the ingestion step
PastIngestion == ~(Stages(trace) = <<"Ingestion">> /\ IngestionFailed(trace[1].res))

HaltingStages ==
    {"Validation", "Baseline", "Anomaly", "Trend", "Variation", "Correlation", "RCA", "Severity"}

\* C8: when one of Validate, Baseline, Anomaly, Trend, Variation, Correlation,
\* RCA, Severity returns status error, no later stage runs in that invocation
\* (shown already for the errors that need no database failure)
C8_ErrorHaltsDownstream ==
    faults = 0 =>
        \A i \in DOMAIN trace :
            (trace[i].stage \in HaltingStages /\ trace[i].res.status = "error") =>
                /\ i = Len(trace)
                /\ pc \in {"finish", "idle"}

\* C9: when a stage of the invocation returned status error, run_pipeline
\* returns status error and the command line exits nonzero; it returns success
\* only when every stage that ran returned success or warning (shown already
\* for the invocations past ingestion and without a database failure)
C9_ErrorIsReported ==
    (Returned /\ PastIngestion /\ faults = 0) =>
        /\ HasError(trace) => (result.status = "error" /\ ExitCode(result) # 0)
        /\ result.status = "success" => ~HasError(trace)

Downstream == <<"Correlation", "RCA", "Severity", "Narrator">>

\* did the invocation's Anomaly stage report at least one anomaly
Reported ==
    /\ ResultOf(trace, "Anomaly").status = "success"
    /\ AnomaliesFound(ResultOf(trace, "Anomaly")) > 0

\* the stages the invocation ran after its Anomaly stage, in order
RanAfterAnomaly ==
    LET st == Stages(trace)
        at == CHOOSE i \in DOMAIN st : st[i] = "Anomaly"
    IN SubSeq(st, at + 1, Len(st))

IsDownstream(stage) == stage \in SeqToSet(Downstream)

\* C10: an invocation that gets past ingestion runs the Anomaly stage, and it
\* runs Correlation, RCA, Severity, Narrator, once each and in that order,
\* exactly when its Anomaly stage reported at least one anomaly; when that
\* reported none, it runs none of the four
C10_DownstreamIffAnomalies ==
    (Returned /\ PastIngestion) =>
        /\ Cardinality({i \in DOMAIN trace : trace[i].stage = "Anomaly"}) = 1
        /\ SelectSeq(Stages(trace), IsDownstream)
             = (IF Reported THEN Downstream ELSE << >>)
        /\ SelectSeq(RanAfterAnomaly, IsDownstream) = SelectSeq(Stages(trace), IsDownstream)

\* an invocation has returned after its Anomaly stage reported anomalies and the
\* four stages ran
C10_Witness ==
    /\ Returned
    /\ Reported
    /\ SelectSeq(Stages(trace), IsDownstream) = Downstream

\* the Anomaly stage of the invocation has run
AnomalyRan == \E i \in DOMAIN trace : trace[i].stage = "Anomaly"

\* C11: in every invocation in which the Anomaly stage ran, Trend and then
\* Variation ran right after it, whatever status and count Anomaly returned
C11_TrendVariationAlways ==
    (Returned /\ AnomalyRan) =>
        /\ Len(RanAfterAnomaly) >= 2
        /\ RanAfterAnomaly[1] = "Trend"
        /\ RanAfterAnomaly[2] = "Variation"

-----------------------------------------------------------------------------
(* IngestionAgent.run on a sequence of files *)

MaxIngests == 3

\* The header that create_dummy_data of verify_pipeline_daily.py writes: the
\* rows are identified by sr_row_id and the file has no sr_number column
RowIdLine(n, day, region, exc, rca) ==
    [sr_row_id |-> n, sr_open_dttm |-> 24 * day + 10, sr_type |-> "Internet",
     region |-> region, exc_id |-> exc, olt_id |-> "OLT1", rca |-> rca,
     status |-> "Closed", vendor |-> "Huawei", product_id |-> "GPON",
     cabinet_id |-> "Cab1", sr_sub_type |-> "Slow Speed"]

FileRowId ==
    [exists |-> TRUE,
     columns |-> {"sr_row_id", "sr_open_dttm", "sr_type", "region", "exc_id", "olt_id",
                  "rca", "status", "vendor", "product_id", "cabinet_id", "sr_sub_type"},
     rows |-> << RowIdLine("ROW_1", 12, "Lahore", "Cantt", "Fiber Cut"),
                 RowIdLine("ROW_2", 12, "Karachi", "Clifton", "Fiber Cut"),
                 RowIdLine("ROW_3", 13, "Karachi", "Clifton", "Power Outage") >>]

\* A file whose open timestamps match none of the formats
FileUndated ==
    [exists |-> TRUE,
     columns |-> {"sr_number", "sr_open_dttm", "sr_type", "region", "exc_id"},
     rows |-> << [sr_number |-> "U01", sr_open_dttm |-> NullNum, sr_type |-> "Voice",
                   region |-> "Karachi", exc_id |-> "Clifton"],
                 [sr_number |-> "U02", sr_open_dttm |-> NullNum, sr_type |-> "Voice",
                   region |-> "Lahore", exc_id |-> "Cantt"] >>]

\* A file with close timestamps: one after the open time, one missing, one before
ClosedLine(n, open, close) ==
    [sr_number |-> n, sr_open_dttm |-> open, sr_close_dttm |-> close,
     sr_type |-> "Voice", region |-> "Karachi", exc_id |-> "Clifton"]

FileClosed ==
    [exists |-> TRUE,
     columns |-> {"sr_number", "sr_open_dttm", "sr_close_dttm", "sr_type", "region", "exc_id"},
     rows |-> << ClosedLine("C01", 24 * 12 + 9, 24 * 12 + 17),
                 ClosedLine("C02", 24 * 12 + 9, NullNum),
                 ClosedLine("C03", 24 * 13 + 9, 24 * 12 + 17) >>]

\* A file with a header and no data line
FileEmpty ==
    [exists |-> TRUE,
     columns |-> {"sr_number", "sr_open_dttm", "sr_type", "region", "exc_id"},
     rows |-> << >>]

IngestFiles ==
    [all |-> FileAll, redated |-> FileRedated, bad |-> FileBad, missing |-> FileMissing,
     rowid |-> FileRowId, undated |-> FileUndated, closed |-> FileClosed,
     empty |-> FileEmpty]

\* what an ingest finds when it starts, and the file the ingest before it read
IngestSnapshot == [file_path |-> args.file_path] @@
    Snapshot(args, result, raw, baselines, anomalies, trends, variations, insights)

\* ingestion_agent.run({"file_path": file_path}) with nothing after it
IngestFile ==
    /\ pc = "idle"
    /\ runs < MaxIngests
    /\ \E name \in DOMAIN IngestFiles : \E f \in Fault :
          \E out \in {IngestionRun(raw, IngestFiles[name], f)} :
             /\ raw' = out[2]
             /\ trace' = <<[stage |-> "Ingestion", res |-> out[1]]>>
             /\ result' = out[1]
             /\ faults' = Charge(f /\ out[1] = [status |-> "error", message |-> "database error"])
             /\ args' = [NoArgs EXCEPT !.file_path = name, !.run_ingestion = TRUE]
    /\ runs' = runs + 1
    /\ hist' = IngestSnapshot
    /\ UNCHANGED <<mttr, aging, session,
                   legacy_schema, altered, baselines, anomalies, trends, variations, insights, pc>>

NextIngest == IngestFile

SpecIngest == Init /\ [][NextIngest]_vars

-----------------------------------------------------------------------------
(* Properties of the ingestion *)

\* an ingest has returned
Ingests == pc = "idle" /\ runs > 0 /\ Stages(trace) = <<"Ingestion">>

\* the records of a file that reach the upsert statement
Ingested(f) == CleanRecords(DropNullOpen(RenameStatus(DeriveOpenDate(Normalized(f)))))

\* of the records with one sr_number, the one that comes last in the batch
LastOf(recs) ==
    {recs[i] : i \in {j \in DOMAIN recs :
                        \A k \in (j + 1)..Len(recs) : recs[k]["sr_number"] # recs[j]["sr_number"]}}

\* the ingest that has just returned read the same file as the one before it,
\* and both returned success
SameFileAgain ==
    /\ Ingests
    /\ runs >= 2
    /\ hist.file_path = args.file_path
    /\ hist.result.status = "success"
    /\ result.status = "success"

\* C12: ingesting the same file twice leaves complaints_raw after the second
\* ingest as it was after the first, and after every successful ingest the row
\* stored for an sr_number of the file holds the values the file gives
C12_ReingestKeepsLastValues ==
    /\ SameFileAgain => raw = hist.raw
    /\ (Ingests /\ result.status = "success") =>
          \A rec \in LastOf(Ingested(IngestFiles[args.file_path])) :
              \E r \in raw : \A c \in DOMAIN rec : r[c] = rec[c]

\* the later export was ingested twice on top of the first file: the rows of
\* the first file are there, with the open date of the later export
C12_Witness ==
    /\ SameFileAgain
    /\ args.file_path = "redated"
    /\ \E r \in raw : r["sr_number"] = "L05"
    /\ \E r \in raw : r["sr_number"] = "L13a" /\ r["sr_open_dt"] = 15
    /\ \E r \in hist.raw : r["sr_number"] = "L13a" /\ r["sr_open_dt"] = 15

\* the required columns a file lacks after header normalization and synonym mapping
MissingRequired(f) ==
    SeqToSet(required_columns) \ MapSynonyms([columns |-> f.columns, rows |-> f.rows], 1).columns

\* C13: ingesting a readable file that, after header normalization and synonym
\* mapping, lacks one of sr_number, sr_open_dttm, sr_type, region, exc_id returns
\* status error with the missing and the found columns, and writes nothing
C13_MissingColumnIsSchemaError ==
    (/\ Ingests
     /\ IngestFiles[args.file_path].exists
     /\ Len(IngestFiles[args.file_path].rows) > 0
     /\ MissingRequired(IngestFiles[args.file_path]) # {}) =>
        /\ result.status = "error"
        /\ "missing" \in DOMAIN result
        /\ result.missing = MissingRequired(IngestFiles[args.file_path])
        /\ "found" \in DOMAIN result
        /\ raw = hist.raw

\* the column that identifies the rows of a file: sr_number, else sr_row_id
IdColumn(df) == IF "sr_number" \in df.columns THEN "sr_number" ELSE "sr_row_id"

\* a file whose N data rows carry distinct row identifiers and open timestamps
\* that parse, under a header that has the open time, type, region and exchange
DistinctAndDated(f) ==
    LET df == MapSynonyms([columns |-> f.columns, rows |-> f.rows], 1)
    IN /\ f.exists
       /\ Len(f.rows) > 0
       /\ MissingRequired(f) \subseteq {"sr_number"}
       /\ IdColumn(df) \in df.columns
       /\ \A i \in DOMAIN df.rows :
             /\ df.rows[i][IdColumn(df)] \notin {NullStr, ""}
             /\ df.rows[i]["sr_open_dttm"] # NullNum
             /\ \A j \in DOMAIN df.rows :
                   df.rows[i][IdColumn(df)] = df.rows[j][IdColumn(df)] => i = j

\* C14: ingesting such a file of N rows into an empty complaints_raw leaves
\* exactly N rows, also under the header of the verification script, whose rows
\* are identified by sr_row_id
C14_EveryRowIsStored ==
    (/\ Ingests
     /\ hist.raw = {}
     /\ result # [status |-> "error", message |-> "database error"]
     /\ DistinctAndDated(IngestFiles[args.file_path])) =>
        Cardinality(raw) = Len(IngestFiles[args.file_path].rows)

\* C15: whenever an ingest returns status error (invalid path, unreadable file,
\* schema failure, no row left after date parsing, database failure during the
\* upsert), complaints_raw is exactly as it was before the ingest
C15_ErrorCommitsNothing ==
    (Ingests /\ result.status = "error") => raw = hist.raw

\* the upsert of a file with new rows failed on a table that had rows
C15_Witness ==
    /\ Ingests
    /\ result = [status |-> "error", message |-> "database error"]
    /\ hist.raw # {}
    /\ \E rec \in SeqToSet(Ingested(IngestFiles[args.file_path])) :
          \A r \in raw : r["sr_number"] # rec["sr_number"]

\* C16: after any sequence of ingests, every row of complaints_raw that has
\* both an open and a close timestamp was opened no later than it was closed
C16_OpenBeforeClose ==
    \A r \in raw :
        (r["sr_open_dttm"] # NullNum /\ r["sr_close_dttm"] # NullNum) =>
            r["sr_open_dttm"] <= r["sr_close_dttm"]

-----------------------------------------------------------------------------
(* SurgeHighlighterAgent *)

\* A name is kept as the sequence of its pieces, a "|" in it a piece of its own.
\* f"{a}|{b}" and f"{a}|{b}|{c}"
RECURSIVE JoinKey(_)
JoinKey(parts) ==
    IF Len(parts) = 1 THEN parts[1]
    ELSE parts[1] \o <<"|">> \o JoinKey(Tail(parts))

\* key.split('|')
RECURSIVE SplitKey(_)
SplitKey(key) ==
    IF \A i \in DOMAIN key : key[i] # "|" THEN <<key>>
    ELSE LET at == CHOOSE i \in DOMAIN key :
                      key[i] = "|" /\ \A j \in 1..(i - 1) : key[j] # "|"
         IN <<SubSeq(key, 1, at - 1)>> \o SplitKey(SubSeq(key, at + 1, Len(key)))

\* dict.get(key, 0)
GetOrZero(dict, key) == IF key \in DOMAIN dict THEN dict[key] ELSE 0

\* round(((current - comparison) / comparison) * 100, 1) in floats, in tenths
float_surge(current, comparison, scale) ==
    The({FlRound(FlMul(FlDiv(FlSub(FlOfInt(current), cmp), cmp), FlOfInt(100)), 10) :
            cmp \in {FlOfDecimal(comparison, scale)}})

\* _calculate_surge: the percentage in tenths; current is a count, comparison
\* a count (scale 1) or an average in ten-thousandths (scale 10000) that
\* arrives as a decimal.Decimal or as a float. Decimal arithmetic rounds the
\* exact quotient; the float is within one part in 2^48 of it and is computed
\* where the exact percentage is half way between two tenths.
calculate_surge(current, comparison, scale, decimal) ==
    IF comparison = 0
    THEN IF current > 0 THEN 9999 ELSE 0
    ELSE IF decimal \/ ~HalfWay((current * scale - comparison) * 1000, comparison)
    THEN SignedRound((current * scale - comparison) * 1000, comparison)
    ELSE float_surge(current, comparison, scale)

\* the float of a percentage of s tenths lies above s / 10
FloatAbove(s) ==
    FlLess([neg |-> s < 0, n |-> BigOf(Abs(s)), d |-> <<10>>], FlOfRatio(s, 10))

\* percent < threshold, the threshold a float of s tenths and the percentage
\* t tenths, held in a Decimal or in a float
PercentBelow(t, decimal, s) ==
    IF t # s THEN t < s ELSE decimal /\ FloatAbove(s)

\* _check_surge: the surge record, or NoResult for None
check_surge(name, current, last_week, mtd_avg, alarming, critical, level, parent, decimal) ==
    The({LET max_percent == IF m.takes_wow THEN m.wow ELSE m.mtd
             max_decimal == decimal /\ mtd_avg # 0 /\ ~m.takes_wow
         IN IF PercentBelow(max_percent, max_decimal, alarming) THEN NoResult
            ELSE [status |-> "surge", level |-> level, name |-> name, parent |-> parent,
                  current_count |-> current, last_week_count |-> last_week,
                  mtd_surge_percent |-> m.mtd, wow_surge_percent |-> m.wow,
                  max_surge_percent |-> max_percent,
                  severity |-> IF ~PercentBelow(max_percent, max_decimal, critical)
                               THEN "CRITICAL" ELSE "ALARMING"] :
            \* max() keeps its first argument unless the second is greater
            m \in {[mtd |-> s.mtd, wow |-> s.wow,
                    takes_wow |-> IF decimal /\ mtd_avg # 0
                                  THEN PercentBelow(s.mtd, TRUE, s.wow)
                                  ELSE s.wow > s.mtd] :
                   s \in {[mtd |-> calculate_surge(current, mtd_avg, 10000, decimal),
                           wow |-> calculate_surge(current, last_week, 1, FALSE)]}}})

\* the counts below which a level is passed over
SurgeFloor == [Region |-> 15, Exchange |-> 10, City |-> 5]

\* a variant that passes over nothing
BelowFloorNever(level, count) == FALSE

\* if count < 15: continue (10 for exchanges, 5 for cities)
BelowFloor(level, count) == count < SurgeFloor[level]

\* the keys of a level of target_data that the loop does not pass over
Checked(target_data, field, level) ==
    {k \in DOMAIN target_data[field] : ~BelowFloor(level, target_data[field][k])}

\* number of names the loop of a level unpacks a key into
KeyParts == [Region |-> 1, Exchange |-> 2, City |-> 3]

\* the surges of one level
LevelSurges(c, field, level) ==
    {s \in {check_surge(SplitKey(k)[KeyParts[level]],
                        c.target_data[field][k],
                        GetOrZero(c.last_week_data[field], k),
                        GetOrZero(c.mtd_avg_data[field], k),
                        c.alarming_threshold, c.critical_threshold, level,
                        SubSeq(SplitKey(k), 1, KeyParts[level] - 1), c.avg_count_decimal) :
            k \in Checked(c.target_data, field, level)} : s # NoResult}

\* does _detect_surges raise: a key that is looked at unpacks into the wrong
\* number of names, or a city is looked at and mtd_avg_data has no 'cities'
DetectRaises(c) ==
    \/ \E k \in Checked(c.target_data, "exchanges", "Exchange") : Len(SplitKey(k)) # 2
    \/ \E k \in Checked(c.target_data, "cities", "City") : Len(SplitKey(k)) # 3
    \/ Checked(c.target_data, "cities", "City") # {} /\ "cities" \notin DOMAIN c.mtd_avg_data

\* _detect_surges
detect_surges(c) ==
    [total |-> {check_surge(<<"Total">>, c.target_data.total, c.last_week_data.total,
                            c.mtd_avg_data.total, c.alarming_threshold,
                            c.critical_threshold, "Total", << >>, c.avg_count_decimal)}
                  \ {NoResult},
     regions |-> {s \in {check_surge(k, c.target_data.regions[k],
                                     GetOrZero(c.last_week_data.regions, k),
                                     GetOrZero(c.mtd_avg_data.regions, k),
                                     c.alarming_threshold, c.critical_threshold,
                                     "Region", << >>, c.avg_count_decimal) :
                            k \in Checked(c.target_data, "regions", "Region")} : s # NoResult},
     exchanges |-> LevelSurges(c, "exchanges", "Exchange"),
     cities |-> LevelSurges(c, "cities", "City")]

\* SurgeHighlighterAgent.run on the context of the caller and on the data its
\* queries returned (none is made for a context without target_date)
SurgeRun(c, db_fails) ==
    IF c.target_date = NullNum THEN [status |-> "error", message |-> "Missing target_date"]
    ELSE IF db_fails \/ DetectRaises(c) THEN [status |-> "error", message |-> "surge failed"]
    ELSE [status |-> "success", surges |-> detect_surges(c)]

\* What _get_date_data returns for a day on which cr complaints of one region
\* were opened, ce of them with the exchange exc and cc of those with a city
\* (GROUP BY returns no row for a count of 0)
DateData(exc, cr, ce, cc) ==
    [total |-> cr,
     regions |-> IF cr > 0 THEN <<"Lahore">> :> cr ELSE << >>,
     exchanges |-> IF ce > 0 THEN JoinKey(<< <<"Lahore">>, exc >>) :> ce ELSE << >>,
     cities |-> IF cc > 0 THEN JoinKey(<< <<"Lahore">>, exc, <<"Model Town">> >>) :> cc
                ELSE << >>]

\* What _get_mtd_average returns: averages in ten-thousandths, and the record
\* without 'cities' when the target date is the first of the month
MtdData(exc, first_of_month, avg) ==
    IF first_of_month
    THEN [total |-> 0, regions |-> << >>, exchanges |-> << >>, nes |-> << >>]
    ELSE DateData(exc, avg, avg, avg)

\* the contexts of a dated run, target_date the first of a month or not; the
\* averages arrive as Decimal or as float, as the driver and the frame have it
DatedInputs ==
    {[target_date |-> IF m[1] THEN 32 ELSE 13,
      target_data |-> DateData(exc, cr, ce, cc),
      last_week_data |-> DateData(exc, lw, lw, lw),
      mtd_avg_data |-> MtdData(exc, m[1], m[2]),
      avg_count_decimal |-> dec,
      alarming_threshold |-> th[1], critical_threshold |-> th[2]] :
        exc \in {<<"Cantt">>, <<"F", "|", "8">>},
        cr \in {14, 15, 40}, ce \in {9, 10, 40}, cc \in {0, 4, 5, 40},
        lw \in {0, 12, 40},
        m \in {<<TRUE, 0>>, <<FALSE, 0>>, <<FALSE, 125000>>, <<FALSE, 400000>>},
        dec \in BOOLEAN,
        th \in {<<200, 500>>, <<0 - 1000, 500>>}}

\* days whose percentages fall half way between two tenths or on a threshold:
\* 401 and 399 complaints against an average of 400, 17 against 16 of last
\* week, 2007 against an average of 2000, 1001 against one of 1000; thresholds
\* of 0.1 to 0.4 and of 6.2 and 6.3 percent
TieInputs ==
    {[target_date |-> 13,
      target_data |-> DateData(<<"Cantt">>, v[1], v[1], v[1]),
      last_week_data |-> DateData(<<"Cantt">>, v[2], v[2], v[2]),
      mtd_avg_data |-> MtdData(<<"Cantt">>, FALSE, v[3]),
      avg_count_decimal |-> dec,
      alarming_threshold |-> th, critical_threshold |-> 500] :
        v \in {<<401, 401, 4000000>>, <<399, 400, 4000000>>, <<17, 16, 160000>>,
               <<2007, 2007, 20000000>>, <<1001, 1001, 10000000>>},
        dec \in BOOLEAN,
        th \in {1, 2, 3, 4, 62, 63}}

\* contexts without target_date
UndatedInputs ==
    {[c EXCEPT !.target_date = NullNum] : c \in TieInputs}

SurgeInputs == DatedInputs \cup TieInputs \cup UndatedInputs

InitSurge ==
    /\ legacy_schema = FALSE
    /\ altered = {}
    /\ raw = {}
    /\ baselines = [dim \in SeqToSet(dimensions) |-> NoFile]
    /\ anomalies = EmptyBag
    /\ trends = EmptyBag
    /\ variations = EmptyBag
    /\ insights = EmptyBag
    /\ mttr = EmptyBag
    /\ aging = EmptyBag
    /\ session = NoSession
    /\ pc = "surge"
    /\ args \in {c \in SurgeInputs :
                    /\ c.target_data.total >= SumOver(DOMAIN c.target_data.exchanges,
                                                      c.target_data.exchanges)
                    /\ SumOver(DOMAIN c.target_data.exchanges, c.target_data.exchanges)
                         >= SumOver(DOMAIN c.target_data.cities, c.target_data.cities)}
    /\ trace = << >>
    /\ result = NoResult
    /\ runs = 0
    /\ faults = 0
    /\ hist = Snapshot(NoArgs, NoResult, {}, [dim \in SeqToSet(dimensions) |-> NoFile],
                        EmptyBag, EmptyBag, EmptyBag, EmptyBag)

\* SurgeHighlighterAgent.run
Surge ==
    /\ pc = "surge"
    /\ \E f \in Fault :
          /\ result' = SurgeRun(args, f)
          /\ faults' = Charge(f)
    /\ pc' = "idle"
    /\ runs' = runs + 1
    /\ UNCHANGED <<mttr, aging, session,
                   legacy_schema, altered, raw, baselines, anomalies, trends, variations, insights,
                   args, trace, hist>>

NextSurge == Surge

SpecSurge == InitSurge /\ [][NextSurge]_vars

\* the surges a run returned for a level
Emitted(field) == IF result.status = "success" THEN result.surges[field] ELSE {}

\* C17: the Surge stage emits no Region surge for a region whose count on D is
\* below 15, no Exchange surge for a (region, exchange) whose count is below 10
\* and no City surge for a (region, exchange, city) whose count is below 5,
\* whatever the averages, the last-week counts and the thresholds are
C17_SurgeFloors ==
    /\ \A k \in DOMAIN args.target_data.regions :
          args.target_data.regions[k] < 15 =>
              \A s \in Emitted("regions") : s.name # k
    /\ \A k \in DOMAIN args.target_data.exchanges :
          args.target_data.exchanges[k] < 10 =>
              \A s \in Emitted("exchanges") : JoinKey(s.parent \o <<s.name>>) # k
    /\ \A k \in DOMAIN args.target_data.cities :
          args.target_data.cities[k] < 5 =>
              \A s \in Emitted("cities") : JoinKey(s.parent \o <<s.name>>) # k

\* a run with every percentage above the alarming threshold returned a surge
\* of the exchange and none of the region and the city, which are below their
\* floors
C17_Witness ==
    /\ pc = "idle"
    /\ result.status = "success"
    /\ args.alarming_threshold < 0
    /\ args.target_data.total = 14
    /\ \E k \in DOMAIN args.target_data.cities : args.target_data.cities[k] = 4
    /\ Emitted("regions") = {}
    /\ Emitted("cities") = {}
    /\ Emitted("exchanges") # {}
    /\ Emitted("total") # {}

-----------------------------------------------------------------------------
(* VariationAgent.calculate_variation under a configured threshold *)

\* current and previous values (sums and means, as fractions) and the
\* variation_threshold_percent of config.yaml
VariationInputs ==
    [current : {<<0, 1>>, <<1, 1>>, <<3, 1>>, <<3, 2>>, <<5, 1>>},
     previous : {<<0, 1>>, <<1, 1>>, <<2, 1>>, <<5, 2>>},
     threshold : {15, 100, 101, 150}]

InitVariation ==
    /\ legacy_schema = FALSE
    /\ altered = {}
    /\ raw = {}
    /\ baselines = [dim \in SeqToSet(dimensions) |-> NoFile]
    /\ anomalies = EmptyBag
    /\ trends = EmptyBag
    /\ variations = EmptyBag
    /\ insights = EmptyBag
    /\ mttr = EmptyBag
    /\ aging = EmptyBag
    /\ session = NoSession
    /\ pc = "calculate_variation"
    /\ args \in VariationInputs
    /\ trace = << >>
    /\ result = NoResult
    /\ runs = 0
    /\ faults = 0
    /\ hist = Snapshot(NoArgs, NoResult, {}, [dim \in SeqToSet(dimensions) |-> NoFile],
                        EmptyBag, EmptyBag, EmptyBag, EmptyBag)

\* one variation record as VariationAgent.run builds it: the two values, the
\* percentage and the 1 / 0 of is_significant
CalculateVariation ==
    /\ pc = "calculate_variation"
    /\ \E var \in {calculate_variation_at(args.current, args.previous, args.threshold)} :
           result' = [status |-> "success",
                      current_value |-> Milli(args.current),
                      previous_value |-> Milli(args.previous),
                      variation_percent |-> var.variation_percent,
                      is_significant |-> IF var.is_significant THEN 1 ELSE 0]
    /\ pc' = "idle"
    /\ UNCHANGED <<mttr, aging, session,
                   legacy_schema, altered, raw, baselines, anomalies, trends, variations, insights,
                   args, trace, runs, faults, hist>>

NextVariation == CalculateVariation

SpecVariation == InitVariation /\ [][NextVariation]_vars

\* C18: a variation row with previous_value 0 and current_value above 0 has
\* variation_percent 100.0, and is_significant 1 exactly when the configured
\* threshold is at most 100
C18_ZeroPreviousRule ==
    (/\ pc = "idle"
     /\ result.status = "success"
     /\ result.previous_value = 0
     /\ result.current_value > 0) =>
        /\ result.variation_percent = 100000
        /\ result.is_significant = (IF args.threshold <= 100 THEN 1 ELSE 0)

-----------------------------------------------------------------------------
(* The pipeline on a day without history *)

\* complaints_raw holds no complaint opened before the target date
ZeroHistory ==
    {r \in raw : r["sr_open_dt"] # NullNum /\ r["sr_open_dt"] < args.target_date} = {}

\* C19: when no complaint was opened before the target date and the pipeline
\* runs with run_baseline, and no database failure hits it, the Baseline stage
\* returns warning and the Anomaly stage of the same invocation returns success
\* with 0 anomalies, whatever the complaints of the day and the artifacts are
C19_EmptyWindowWarning ==
    (/\ args.run_baseline
     /\ faults = 0
     /\ ZeroHistory
     /\ ResultOf(trace, "Anomaly") # NoResult) =>
        /\ ResultOf(trace, "Baseline").status = "warning"
        /\ ResultOf(trace, "Anomaly").status = "success"
        /\ AnomaliesFound(ResultOf(trace, "Anomaly")) = 0

-----------------------------------------------------------------------------
(* The store step of a stage: get_session(), delete(), add_all(), commit() *)

MaxStores == 2

\* the stages that replace the rows of a date, and the tables each writes
StoreStages == {"Anomaly", "Trend", "Variation", "Resolution"}

StoreTables ==
    [Anomaly |-> <<"daily_anomalies">>, Trend |-> <<"daily_trends">>,
     Variation |-> <<"daily_variations">>, Resolution |-> <<"daily_mttr", "daily_aging">>]

DateColumn ==
    [daily_anomalies |-> "anomaly_date", daily_trends |-> "trend_date",
     daily_variations |-> "variation_date", daily_mttr |-> "date", daily_aging |-> "date"]

\* the committed content of the result tables, which is what a query of
\* another connection reads
Committed ==
    [daily_anomalies |-> anomalies, daily_trends |-> trends,
     daily_variations |-> variations, daily_mttr |-> mttr, daily_aging |-> aging]

StoreRecord(t, d, key, value) ==
    (DateColumn[t] :> d) @@ [dimension_key |-> key, value |-> value]

\* the rows of a table for a date, and the others
OnDate(B, t, d) == BagFilter(B, LAMBDA r : r[DateColumn[t]] = d)

OffDate(B, t, d) == BagFilter(B, LAMBDA r : r[DateColumn[t]] # d)

\* what earlier runs left in a table: nothing, rows of day 13, rows of days 12 and 13
OldRows(t, shape) ==
    IF shape = "none" THEN EmptyBag
    ELSE IF shape = "day"
    THEN SetToBag({StoreRecord(t, 13, "Lahore", 1), StoreRecord(t, 13, "Karachi", 1)})
    ELSE SetToBag({StoreRecord(t, 13, "Lahore", 1), StoreRecord(t, 13, "Karachi", 1),
                   StoreRecord(t, 12, "Lahore", 1)})

\* the records a stage computed for day 13
NewRows(t, n) ==
    IF n = 0 THEN EmptyBag
    ELSE IF n = 1 THEN SetToBag({StoreRecord(t, 13, "Lahore", 2)})
    ELSE SetToBag({StoreRecord(t, 13, "Lahore", 2), StoreRecord(t, 13, "Gulberg", 2)})

StoreInputs ==
    UNION {[stage : {s}, target_date : {13},
            records : {[t \in SeqToSet(StoreTables[s]) |-> NewRows(t, n[t])] :
                          n \in [SeqToSet(StoreTables[s]) ->
                                    IF s = "Resolution" THEN {0, 1} ELSE {0, 1, 2}]}] :
           s \in StoreStages}

\* the statements of the store step in order: the delete of the date's rows
\* and the add_all of the records; ResolutionAgent adds only `if records`
RECURSIVE Statements(_, _, _)
Statements(tables, records, i) ==
    IF i > Len(tables) THEN << >>
    ELSE <<[op |-> "delete", table |-> tables[i]]>>
         \o (IF records[tables[i]] # EmptyBag
             THEN <<[op |-> "add", table |-> tables[i]]>> ELSE << >>)
         \o Statements(tables, records, i + 1)

\* a delete that a connection in autocommit mode would make
SessionDeleteAutocommit(db, view, t, d) ==
    <<[db EXCEPT ![t] = OffDate(db[t], t, d)], [view EXCEPT ![t] = OffDate(view[t], t, d)]>>

\* session.query(T).filter(T.date == d).delete() on a session of
\* sessionmaker(bind=engine): the delete is part of the session's transaction;
\* <<committed tables, tables as the transaction sees them>>
SessionDelete(db, view, t, d) ==
    <<db, [view EXCEPT ![t] = OffDate(view[t], t, d)]>>

\* session.add_all(objects)
SessionAdd(db, view, t, rows) == <<db, [view EXCEPT ![t] = view[t] (+) rows]>>

\* session.commit()
SessionCommit(db, view) == view

\* the exception leaves run() without a commit: the session goes out of scope
\* and its connection returns to the pool, which rolls the transaction back
SessionRollback(db, view) == db

SetCommitted(db) ==
    /\ anomalies' = db["daily_anomalies"]
    /\ trends' = db["daily_trends"]
    /\ variations' = db["daily_variations"]
    /\ mttr' = db["daily_mttr"]
    /\ aging' = db["daily_aging"]

StoreSnapshot(d) == [target_date |-> d, tables |-> Committed]

InitStore ==
    /\ legacy_schema = FALSE
    /\ altered = {}
    /\ raw = {}
    /\ baselines = [dim \in SeqToSet(dimensions) |-> NoFile]
    /\ insights = EmptyBag
    /\ \E shape \in {"none", "day", "days"} :
          /\ anomalies = OldRows("daily_anomalies", shape)
          /\ trends = OldRows("daily_trends", shape)
          /\ variations = OldRows("daily_variations", shape)
          /\ mttr = OldRows("daily_mttr", shape)
          /\ aging = OldRows("daily_aging", shape)
          /\ hist = [target_date |-> NullNum,
                     tables |-> [daily_anomalies |-> OldRows("daily_anomalies", shape),
                                 daily_trends |-> OldRows("daily_trends", shape),
                                 daily_variations |-> OldRows("daily_variations", shape),
                                 daily_mttr |-> OldRows("daily_mttr", shape),
                                 daily_aging |-> OldRows("daily_aging", shape)]]
    /\ session = NoSession
    /\ pc = "store"
    /\ args = NoArgs
    /\ trace = << >>
    /\ result = NoResult
    /\ runs = 0
    /\ faults = 0

\* does the stage reach its store step: `if anomalies:`, `if all_trends:`,
\* `if all_variations:`; ResolutionAgent always does
Stores(a) == a.stage = "Resolution" \/ a.records[StoreTables[a.stage][1]] # EmptyBag

\* session = get_session()
OpenSession ==
    /\ pc = "store"
    /\ ~session.open
    /\ runs < MaxStores
    /\ \E a \in StoreInputs :
          /\ Stores(a)
          /\ args' = a
          /\ session' = [open |-> TRUE, stage |-> a.stage, outcome |-> "none",
                         view |-> Committed,
                         todo |-> Statements(StoreTables[a.stage], a.records, 1),
                         done |-> << >>]
          /\ hist' = StoreSnapshot(a.target_date)
    /\ runs' = runs + 1
    /\ result' = NoResult
    /\ UNCHANGED <<legacy_schema, altered, raw, baselines, anomalies, trends, variations, insights,
                   mttr, aging, pc, trace, faults>>

\* a stage that found nothing to store opens no session
SkipStore ==
    /\ pc = "store"
    /\ ~session.open
    /\ runs < MaxStores
    /\ \E a \in StoreInputs :
          /\ ~Stores(a)
          /\ args' = a
          /\ session' = [open |-> FALSE, stage |-> a.stage, outcome |-> "skipped",
                         view |-> Committed, todo |-> << >>, done |-> << >>]
          /\ hist' = StoreSnapshot(a.target_date)
          /\ trace' = Append(trace, [stage |-> a.stage, res |-> [status |-> "success"]])
    /\ runs' = runs + 1
    /\ result' = NoResult
    /\ UNCHANGED <<legacy_schema, altered, raw, baselines, anomalies, trends, variations, insights,
                   mttr, aging, pc, faults>>

\* the next statement of the store step
Execute ==
    /\ pc = "store"
    /\ session.open
    /\ session.todo # << >>
    /\ LET st == Head(session.todo) IN
       \E out \in {IF st.op = "delete"
                   THEN SessionDelete(Committed, session.view, st.table, args.target_date)
                   ELSE SessionAdd(Committed, session.view, st.table,
                                   args.records[st.table])} :
          /\ SetCommitted(out[1])
          /\ session' = [session EXCEPT !.view = out[2], !.todo = Tail(session.todo),
                                        !.done = Append(session.done, st)]
    /\ UNCHANGED <<legacy_schema, altered, raw, baselines, insights, pc, args, trace, result,
                   runs, faults, hist>>

\* session.commit(); session.close()
Commit ==
    /\ pc = "store"
    /\ session.open
    /\ session.todo = << >>
    /\ SetCommitted(SessionCommit(Committed, session.view))
    /\ session' = [session EXCEPT !.open = FALSE, !.outcome = "committed"]
    /\ trace' = Append(trace, [stage |-> session.stage, res |-> [status |-> "success"]])
    /\ UNCHANGED <<legacy_schema, altered, raw, baselines, insights, pc, args, result,
                   runs, faults, hist>>

\* an exception at a statement or at the commit: except Exception returns
\* status error, nothing is committed
FailStore ==
    /\ pc = "store"
    /\ session.open
    /\ faults < MaxFaults
    /\ SetCommitted(SessionRollback(Committed, session.view))
    /\ session' = [session EXCEPT !.open = FALSE, !.outcome = "error"]
    /\ trace' = Append(trace, [stage |-> session.stage,
                               res |-> [status |-> "error", message |-> "database error"]])
    /\ faults' = faults + 1
    /\ UNCHANGED <<legacy_schema, altered, raw, baselines, insights, pc, args, result, runs, hist>>

\* a query of the dashboard on its own connection, at any moment
Read ==
    /\ pc = "store"
    /\ "stage" \in DOMAIN session
    /\ result' = [status |-> "read", tables |-> Committed, during |-> session.open]
    /\ UNCHANGED <<legacy_schema, altered, raw, baselines, anomalies, trends, variations, insights,
                   mttr, aging, session, pc, args, trace, runs, faults, hist>>

NextStore == OpenSession \/ SkipStore \/ Execute \/ Commit \/ FailStore \/ Read

SpecStore == InitStore /\ [][NextStore]_vars

\* tables as a reader may find them: every table off the date as the stage
\* found it, and on the date either all the stage's tables with the rows the
\* stage found or all of them with the stage's records
OldOrNew(seen) ==
    /\ \A t \in DOMAIN seen :
          OffDate(seen[t], t, args.target_date) = OffDate(hist.tables[t], t, args.target_date)
    /\ \A t \in DOMAIN seen \ SeqToSet(StoreTables[args.stage]) : seen[t] = hist.tables[t]
    /\ \/ \A t \in SeqToSet(StoreTables[args.stage]) :
             OnDate(seen[t], t, args.target_date) = OnDate(hist.tables[t], t, args.target_date)
       \/ \A t \in SeqToSet(StoreTables[args.stage]) :
             OnDate(seen[t], t, args.target_date) = args.records[t]

\* C20: the delete of the date's rows and the insert of the new ones are one
\* transaction of the stage: the committed tables, and what any reader saw of
\* them, have for the date either the old rows or the new rows, they still are
\* as the stage found them while the session is open, and they are so again
\* after a stage that failed before its commit
C20_StoreIsOneTransaction ==
    "stage" \in DOMAIN session =>
        /\ OldOrNew(Committed)
        /\ result.status = "read" => OldOrNew(result.tables)
        /\ session.open => Committed = hist.tables
        /\ session.outcome = "error" => Committed = hist.tables
        /\ session.outcome = "committed" =>
              \A t \in SeqToSet(StoreTables[args.stage]) :
                 OnDate(Committed[t], t, args.target_date) = args.records[t]

\* a stage failed after its delete of rows that existed, and a reader looked
\* at the tables while the session was open
C20_Witness ==
    /\ "stage" \in DOMAIN session
    /\ session.outcome = "error"
    /\ session.done # << >>
    /\ OnDate(hist.tables[session.done[1].table], session.done[1].table,
              args.target_date) # EmptyBag
    /\ result.status = "read"
    /\ result.during

-----------------------------------------------------------------------------
(* Properties of the later stages *)

\* C21: no anomaly is stored for a key that has no entry in its dimension's
\* baseline: every anomaly row of a key other than the null key was computed
\* against an entry of the artifact (an entry always has days behind it)
C21_NoAnomalyWithoutBaselineEntry ==
    \A r \in BagToSet(anomalies) : r.dimension_key # "None" => r.g_days # {}

\* C22: after a Baseline run over a history that is not empty, on a database
\* that has the columns of its query and without a database failure, every
\* one of the five dimensions has an artifact, computed relative to the
\* target date of the run
C22_BaselineArtifactsComplete ==
    (/\ legacy_schema
     /\ faults = 0
     /\ ResultOf(trace, "Baseline") # NoResult
     /\ RowsBetween(raw, args.target_date - BaselineBuffer, args.target_date - 1) # {}) =>
        \A dim \in SeqToSet(dimensions) :
           /\ baselines[dim].exists
           /\ \A e \in baselines[dim].rows : e.g_target = args.target_date

\* the rule of the severity refinement as it is stated: a WARNING of the date
\* that was there the day before under the same dimension and key, or a
\* WARNING of a Type on a date with more than three Region anomalies
MustEscalate(anoms, r, d) ==
    /\ r.anomaly_date = d
    /\ r.severity = "WARNING"
    /\ \/ \E p \in BagToSet(anoms) :
             p.anomaly_date = d - 1 /\ p.dimension = r.dimension
             /\ p.dimension_key = r.dimension_key
       \/ /\ r.dimension = "Type"
          /\ BagCardinality(BagFilter(anoms, LAMBDA q : q.anomaly_date = d
                                                         /\ q.dimension = "Region")) > 3

\* C23: a Severity stage that succeeds turns into CRITICAL exactly the WARNING
\* rows of the date that are persistent, or of dimension Type on a widespread
\* date, and leaves every other row as it was
C23_SeverityEscalation ==
    [][(pc = "severity" /\ pc' = "narrator"
        /\ ResultOf(trace', "Severity").status = "success") =>
          anomalies' = BagMap(anomalies,
                              LAMBDA r : IF MustEscalate(anomalies, r, args.target_date)
                                         THEN [r EXCEPT !.severity = "CRITICAL"]
                                         ELSE r)]_vars

\* a Type row escalated for the spread, without a row the day before
C23_WitnessSpread ==
    /\ pc = "narrator"
    /\ ResultOf(trace, "Severity").status = "success"
    /\ \E r \in BagToSet(anomalies) :
          /\ r.anomaly_date = args.target_date
          /\ r.severity = "CRITICAL"
          /\ r.z_score <= threshold_critical
          /\ r.dimension = "Type"
          /\ ~\E p \in BagToSet(anomalies) :
                p.anomaly_date = args.target_date - 1 /\ p.dimension = r.dimension
                /\ p.dimension_key = r.dimension_key

\* a row escalated for persistence alone: not a Type, and a row the day before
C23_Witness ==
    /\ pc = "narrator"
    /\ ResultOf(trace, "Severity").status = "success"
    /\ \E r \in BagToSet(anomalies) :
          /\ r.anomaly_date = args.target_date
          /\ r.severity = "CRITICAL"
          /\ r.z_score <= threshold_critical
          /\ r.dimension # "Type"
          /\ \E p \in BagToSet(anomalies) :
                p.anomaly_date = args.target_date - 1 /\ p.dimension = r.dimension
                /\ p.dimension_key = r.dimension_key

-----------------------------------------------------------------------------
(* RCAAgent.run on a table of anomalies *)

\* lines of an export: complaints of days 12 and 13, two of the same scope
\* with different causes, one without a region and one whose region is the
\* text None
RcaLines ==
    << Line("R01", 13, "Internet", "Lahore", "Cantt", "Fiber Cut"),
       Line("R02", 13, "Internet", "Lahore", "Cantt", "Power Outage"),
       Line("R03", 13, "Voice", "Karachi", "Clifton", "Fiber Cut"),
       Line("R04", 12, "Voice", "Multan", "Bosan", "Fiber Cut"),
       Line("R05", 12, "Internet", "Lahore", "Cantt", "Fiber Cut"),
       Line("R06", 13, "Voice", NullStr, "Clifton", "Fiber Cut"),
       Line("R07", 13, "Voice", "None", "Clifton", "Power Outage"),
       Line("R08", 13, "Voice", NullStr, "Clifton", "Power Outage"),
       Line("R09", 13, "Voice", "None", "Clifton", "Fiber Cut") >>

\* the export that holds the lines numbered in S
RcaFile(S) ==
    [exists |-> TRUE,
     columns |-> {"sr_number", "timestamp", "type", "region", "exchange", "rca"},
     rows |-> [i \in 1..Cardinality(S) |-> RcaLines[SortedSeq(S)[i]]]]

\* a later export of request R03, its open time now on day 15
RcaFileLater ==
    [exists |-> TRUE,
     columns |-> {"sr_number", "timestamp", "type", "region", "exchange", "rca"},
     rows |-> << Line("R03", 15, "Voice", "Karachi", "Clifton", "Fiber Cut") >>]

\* what the RCA stage of day 13 finds: the export ingested, the artifacts of
\* the Baseline stage on a table with the columns its query names, the rows
\* the Anomaly stage stored, and complaints_raw as a later export may have
\* left it
RcaInput(S, later) ==
    The({The({The({[raw |-> IF later THEN IngestionRun(tbl, RcaFileLater, FALSE)[2] ELSE tbl,
                    baselines |-> files,
                    anomalies |-> out[2]] :
                      out \in AnomalyRun(tbl, files, EmptyBag, 13, FALSE, ModelsEnum)}) :
                files \in {BaselineRun(tbl, [dim \in SeqToSet(dimensions) |-> NoFile],
                                       TRUE, 13, FALSE)[2]}}) :
           tbl \in {IngestionRun({}, RcaFile(S), FALSE)[2]}})

InitRca ==
    /\ legacy_schema = TRUE
    /\ altered = {}
    /\ \E S \in SUBSET (1..Len(RcaLines)) :
          \E later \in BOOLEAN :
             \E inp \in {RcaInput(S, later)} :
                /\ raw = inp.raw
                /\ baselines = inp.baselines
                /\ anomalies = inp.anomalies
    /\ trends = EmptyBag
    /\ variations = EmptyBag
    /\ insights = EmptyBag
    /\ mttr = EmptyBag
    /\ aging = EmptyBag
    /\ session = NoSession
    /\ pc = "rca"
    /\ args = [NoArgs EXCEPT !.target_date = 13]
    /\ trace = << >>
    /\ result = NoResult
    /\ runs = 0
    /\ faults = 0
    /\ hist = Snapshot(NoArgs, NoResult, {}, [dim \in SeqToSet(dimensions) |-> NoFile],
                        EmptyBag, EmptyBag, EmptyBag, EmptyBag)

\* RCAAgent().run({"target_date": D})
RcaStage ==
    /\ pc = "rca"
    /\ \E f \in Fault :
          \E out \in RCARun(raw, anomalies, args.target_date, f) :
             /\ anomalies' = out[2]
             /\ trace' = Record("RCA", out[1])
             /\ result' = out[1]
             /\ faults' = Charge(f)
    /\ pc' = "idle"
    /\ UNCHANGED <<mttr, aging, session,
                   legacy_schema, altered, raw, baselines, trends, variations, insights,
                   args, runs, hist>>

NextRca == RcaStage

SpecRca == InitRca /\ [][NextRca]_vars

\* does the context of an anomaly hold a "Probable RCA: ..." part
HasProbableRca(r) == \E i \in DOMAIN r.rca_context : r.rca_context[i].label = "Probable RCA"

\* the complaints of the date that the query of the stage selects for an
\* anomaly: those whose column of the dimension equals the dimension_key
InScope(r) ==
    {c \in RowsOn(raw, args.target_date) : c[DimCol[r.dimension]] = r.dimension_key}

C24_ProbableRcaForThreeDimensions ==
    (pc = "idle" /\ result.status = "success") =>
        \A r \in BagToSet(anomalies) :
           (/\ r.anomaly_date = args.target_date
            /\ r.dimension \in {"Type", "Region", "Exchange"}
            /\ InScope(r) # {}) <=> HasProbableRca(r)

\* daily_anomalies never holds a row of dimension City or RCA: the Baseline
\* stage stops at City before it writes the artifact of either, and the
\* Anomaly stage skips a dimension without artifact
NoCityOrRcaAnomalies ==
    \A r \in BagToSet(anomalies) : r.dimension \in {"Type", "Region", "Exchange", ""}

\* two rows that the Anomaly stage stored equal in every column (a NULL key
\* and the text 'None' with equal counts) carry different texts after the
\* RCA stage: the tied rca values came in another order for each of them
EqualRowsDifferentTexts ==
    \E r, q \in BagToSet(anomalies) :
        /\ r # q
        /\ [r EXCEPT !.rca_context = << >>] = [q EXCEPT !.rca_context = << >>]
        /\ HasProbableRca(r) /\ HasProbableRca(q)

-----------------------------------------------------------------------------
(* CorrelationAgent.run on a table of anomalies *)

\* a context that an earlier RCA stage left
EarlierContext == <<[label |-> "Probable RCA", items |-> <<<<"Fiber Cut", 1000>>>>]>>

\* rows that daily_anomalies may hold when the stage starts: with and without
\* a context, of day 13 and of the day before
CorrelationAnomalyRows ==
    {AnomalyRow(13, "Type", "Internet", 4, [avg |-> 1000, std |-> 0, samples |-> 1, sum |-> 1, sumsq |-> 1, g_days |-> {12}]),
     [AnomalyRow(13, "Region", "Lahore", 2, [avg |-> 1000, std |-> 0, samples |-> 1, sum |-> 1, sumsq |-> 1, g_days |-> {12}])
        EXCEPT !.rca_context = EarlierContext],
     AnomalyRow(13, "Exchange", "Cantt", 3, [avg |-> 1000, std |-> 0, samples |-> 1, sum |-> 1, sumsq |-> 1, g_days |-> {12}]),
     [AnomalyRow(13, "Exchange", "Clifton", 3, [avg |-> 1500, std |-> 707, samples |-> 2, sum |-> 3, sumsq |-> 5, g_days |-> {12}])
        EXCEPT !.rca_context = EarlierContext],
     AnomalyRow(13, "Region", "Karachi", 3, [avg |-> 1500, std |-> 707, samples |-> 2, sum |-> 3, sumsq |-> 5, g_days |-> {12}]),
     AnomalyRow(13, "Exchange", "Gulberg", 1, [avg |-> 0, std |-> 0, samples |-> 0, sum |-> 0, sumsq |-> 0, g_days |-> {}]),
     [AnomalyRow(12, "Exchange", "Cantt", 1, [avg |-> 0, std |-> 0, samples |-> 0, sum |-> 0, sumsq |-> 0, g_days |-> {}])
        EXCEPT !.rca_context = EarlierContext]}

InitCorrelation ==
    /\ legacy_schema = FALSE
    /\ altered = {}
    /\ raw = IngestionRun({}, FileAll, FALSE)[2]
    /\ baselines = [dim \in SeqToSet(dimensions) |-> NoFile]
    /\ \E S \in SUBSET CorrelationAnomalyRows : anomalies = SetToBag(S)
    /\ trends = EmptyBag
    /\ variations = EmptyBag
    /\ insights = EmptyBag
    /\ mttr = EmptyBag
    /\ aging = EmptyBag
    /\ session = NoSession
    /\ pc = "correlation"
    /\ args = [NoArgs EXCEPT !.target_date = 13]
    /\ trace = << >>
    /\ result = NoResult
    /\ runs = 0
    /\ faults = 0
    /\ hist = Snapshot(NoArgs, NoResult, {}, [dim \in SeqToSet(dimensions) |-> NoFile],
                        EmptyBag, EmptyBag, EmptyBag, EmptyBag)

\* CorrelationAgent().run({"target_date": D})
CorrelationStage ==
    /\ pc = "correlation"
    /\ \E f \in Fault :
          \E out \in CorrelationRun(raw, anomalies, args.target_date, f) :
             /\ anomalies' = out[2]
             /\ trace' = Record("Correlation", out[1])
             /\ result' = out[1]
             /\ faults' = Charge(f)
    /\ pc' = "idle"
    /\ hist' = [hist EXCEPT !.anomalies = anomalies]
    /\ UNCHANGED <<mttr, aging, session,
                   legacy_schema, altered, raw, baselines, trends, variations, insights,
                   args, runs>>

NextCorrelation == CorrelationStage

SpecCorrelation == InitCorrelation /\ [][NextCorrelation]_vars

\* an anomaly row without its context
WithoutContext(r) == [r EXCEPT !.rca_context = << >>]

IsPrefix(s, t) == Len(s) <= Len(t) /\ \A i \in DOMAIN s : s[i] = t[i]

\* C25: the Correlation stage creates no anomaly row, deletes none and changes
\* no field but rca_context, and the context a row had is a prefix of the one
\* it has afterwards
C25_CorrelationOnlyAugments ==
    [][pc = "correlation" =>
          /\ BagMap(anomalies', WithoutContext) = BagMap(anomalies, WithoutContext)
          /\ \A r \in BagToSet(anomalies) :
                \E s \in BagToSet(anomalies') :
                   /\ WithoutContext(s) = WithoutContext(r)
                   /\ IsPrefix(r.rca_context, s.rca_context)
          /\ \A s \in BagToSet(anomalies') :
                \E r \in BagToSet(anomalies) :
                   /\ WithoutContext(s) = WithoutContext(r)
                   /\ IsPrefix(r.rca_context, s.rca_context)]_vars

\* the stage extended a context that was not empty
C25_Witness ==
    /\ pc = "idle"
    /\ result.status = "success"
    /\ \E s \in BagToSet(anomalies) :
          /\ Len(s.rca_context) = 2
          /\ s.rca_context[1].label = "Probable RCA"
          /\ s.rca_context[2].label = "Correlated with"

-----------------------------------------------------------------------------
(* The windows of VariationAgent.run for every target date of 2026 *)

\* the target dates: day 1 is 1 January 2026, day 365 is 31 December 2026
YearDays == 1..365

InitWindows ==
    /\ legacy_schema = FALSE
    /\ altered = {}
    /\ raw = {}
    /\ baselines = [dim \in SeqToSet(dimensions) |-> NoFile]
    /\ anomalies = EmptyBag
    /\ trends = EmptyBag
    /\ variations = EmptyBag
    /\ insights = EmptyBag
    /\ mttr = EmptyBag
    /\ aging = EmptyBag
    /\ session = NoSession
    /\ pc = "windows"
    /\ \E d \in YearDays : args = [NoArgs EXCEPT !.target_date = d]
    /\ trace = << >>
    /\ result = NoResult
    /\ runs = 0
    /\ faults = 0
    /\ hist = Snapshot(NoArgs, NoResult, {}, [dim \in SeqToSet(dimensions) |-> NoFile],
                        EmptyBag, EmptyBag, EmptyBag, EmptyBag)

\* the dates VariationAgent.run derives from target_date before its loop
Windows ==
    /\ pc = "windows"
    /\ result' = [status |-> "windows",
                  current_week_start |-> WeekStart(args.target_date),
                  prev_week_start |-> WeekStart(args.target_date) - 7,
                  prev_week_end |-> args.target_date - 7,
                  current_month_start |-> MonthStart(args.target_date),
                  prev_month_start |-> PrevMonthStart(args.target_date),
                  prev_month_end |-> PrevMonthEnd(args.target_date)]
    /\ pc' = "idle"
    /\ UNCHANGED <<mttr, aging, session,
                   legacy_schema, altered, raw, baselines, anomalies, trends, variations, insights,
                   args, trace, runs, faults, hist>>

NextWindows == Windows

SpecWindows == InitWindows /\ [][NextWindows]_vars

\* C26: for every target date the previous-period window of the MOM
\* comparison starts on the 1st of the previous calendar month and ends
\* before the 1st of the target date's own month
C26_MomWindowInPreviousMonth ==
    result.status = "windows" =>
        /\ result.prev_month_start < result.current_month_start
        /\ result.prev_month_start <= result.prev_month_end
        /\ result.prev_month_end < result.current_month_start

-----------------------------------------------------------------------------
(* Properties of the trend rows *)

\* C27: when the Trend stage has stored its rows for the target date, the
\* metric_value of each of them is the number of complaints of its dimension
\* and key that were opened on that date (0 when the key has none)
C27_TrendMetricIsCountOfTheDay ==
    (/\ pc = "variation"
     /\ ResultOf(trace, "Trend").status = "success"
     /\ ResultOf(trace, "Trend").trends_calculated > 0) =>
        \A r \in BagToSet(trends) :
           r.trend_date = args.target_date =>
              r.metric_value =
                 Cardinality({c \in RowsOn(raw, args.target_date) :
                                 c[DimCol[r.dimension]] = r.dimension_key})

-----------------------------------------------------------------------------
(* ResolutionAgent *)

\* self.dimensions of ResolutionAgent
ResolutionDims == [Region |-> "region", City |-> "city", Exchange |-> "exc_id"]

\* `if row[dim_col]`: neither null nor empty
Truthy(v) == v # NullStr /\ v # ""

\* round(mean of the durations in hours, 2), in hundredths of an hour
MeanHundredths(rows) ==
    LET hours == SumOver(rows, [r \in rows |-> r["sr_close_dttm"] - r["sr_open_dttm"]])
    IN IF HalfWay(100 * hours, Cardinality(rows))
       THEN FlRound(FlOfRatio(hours, Cardinality(rows)), 100)
       ELSE SignedRound(100 * hours, Cardinality(rows))

MttrRecord(d, dim, key, rows) ==
    [date |-> d, dimension |-> dim, dimension_key |-> key,
     avg_mttr_hours |-> MeanHundredths(rows), total_resolved_count |-> Cardinality(rows)]

\* ResolutionAgent._calculate_mttr: the complaints closed on the date whose
\* resolution took at least 300 seconds (timestamps are whole hours, so at
\* least one hour), overall and per key of the three dimensions
calculate_mttr(table, d) ==
    LET closed == {r \in table : r["sr_close_dttm"] # NullNum /\ DateOf(r["sr_close_dttm"]) = d}
        df == {r \in closed : /\ r["sr_open_dttm"] # NullNum
                               /\ r["sr_close_dttm"] - r["sr_open_dttm"] >= 1}
    IN IF df = {} THEN EmptyBag
       ELSE SetToBag({MttrRecord(d, "Total", "All", df)} \cup
                     UNION {{MttrRecord(d, dim, k, {r \in df : r[ResolutionDims[dim]] = k}) :
                               k \in {v \in KeysOf(df, ResolutionDims[dim]) : Truthy(v)}} :
                            dim \in DOMAIN ResolutionDims})

\* age at 23:59:59 of the date, in hours, short of one second
AgeHours(r, d) == 24 * (d + 1) - r["sr_open_dttm"]

\* get_slab: the age is a whole number of hours less one second, so it
\* exceeds a whole number of hours exactly when AgeHours does
get_slab(hours) ==
    IF hours > 24 * 60 THEN "> 60 Days"
    ELSE IF hours > 24 * 30 THEN "> 30 Days"
    ELSE IF hours > 24 * 10 THEN "> 10 Days"
    ELSE IF hours > 24 * 6 THEN "> 6 Days"
    ELSE IF hours > 72 THEN "> 72 Hours"
    ELSE IF hours > 48 THEN "> 48 Hours"
    ELSE IF hours > 24 THEN "> 24 Hours"
    ELSE "Within 24 Hours"

target_slabs ==
    {"> 24 Hours", "> 48 Hours", "> 72 Hours", "> 6 Days", "> 10 Days", "> 30 Days", "> 60 Days"}

AgingRecord(d, dim, key, slab, rows) ==
    [date |-> d, dimension |-> dim, dimension_key |-> key, slab |-> slab,
     count |-> Cardinality(rows)]

\* ResolutionAgent._calculate_aging: the complaints opened up to the date, not
\* closed by its end, with a status that is not null and not 'Closed'
calculate_aging(table, d) ==
    LET df == {r \in table :
                 /\ r["sr_open_dt"] # NullNum
                 /\ r["sr_open_dt"] <= d
                 /\ (r["sr_close_dttm"] = NullNum \/ r["sr_close_dttm"] >= 24 * (d + 1))
                 /\ r["sr_status"] # NullStr
                 /\ r["sr_status"] # "Closed"}
        in(slab) == {r \in df : r["sr_open_dttm"] # NullNum /\ get_slab(AgeHours(r, d)) = slab}
    IN SetToBag({AgingRecord(d, "Total", "All", s, in(s)) : s \in {t \in target_slabs : in(t) # {}}}
                \cup
                UNION {UNION {{AgingRecord(d, dim, k, s,
                                           {r \in in(s) : r[ResolutionDims[dim]] = k}) :
                                 s \in {t \in target_slabs :
                                           \E r \in in(t) : r[ResolutionDims[dim]] = k}} :
                              k \in {v \in KeysOf(df, ResolutionDims[dim]) : Truthy(v)}} :
                       dim \in DOMAIN ResolutionDims})

\* a variant that touches a table only when there are records for it
StoreIfAny(table, d, records) ==
    IF records # EmptyBag
    THEN BagFilter(table, LAMBDA r : r.date # d) (+) records
    ELSE table

\* session.query(T).filter_by(date=d).delete(); if records: session.add_all(...)
StoreRecords(table, d, records) ==
    BagFilter(table, LAMBDA r : r.date # d) (+) records

\* ResolutionAgent.run: <<result, daily_mttr afterwards, daily_aging afterwards>>
ResolutionRun(table, m, a, d, db_fails) ==
    IF db_fails THEN <<[status |-> "error", message |-> "database error"], m, a>>
    ELSE <<[status |-> "success",
            mttr_stored |-> BagCardinality(calculate_mttr(table, d)),
            aging_stored |-> BagCardinality(calculate_aging(table, d))],
           StoreRecords(m, d, calculate_mttr(table, d)),
           StoreRecords(a, d, calculate_aging(table, d))>>

\* an export with close timestamps, cities and a status column
ResolvedLine(n, open, close, region, exc, city, status) ==
    [sr_number |-> n, sr_open_dttm |-> open, sr_close_dttm |-> close, sr_type |-> "Voice",
     region |-> region, exc_id |-> exc, city |-> city, status |-> status]

FileResolved ==
    [exists |-> TRUE,
     columns |-> {"sr_number", "sr_open_dttm", "sr_close_dttm", "sr_type", "region",
                  "exc_id", "city", "status"},
     rows |-> << ResolvedLine("X01", 24 * 12 + 9, 24 * 13 + 11, "Karachi", "Clifton",
                              "Karachi City", "Closed"),
                 ResolvedLine("X02", 24 * 13 + 8, 24 * 13 + 10, "Lahore", "Cantt",
                              "Lahore City", "Closed"),
                 ResolvedLine("X03", 24 * 13 + 9, 24 * 13 + 9, "Lahore", "Cantt",
                              NullStr, "Closed"),
                 ResolvedLine("X04", 24 * 10 + 9, NullNum, "Lahore", "Cantt",
                              "Lahore City", "Open"),
                 ResolvedLine("X05", 24 * 13 + 9, NullNum, "Karachi", "Clifton",
                              "Karachi City", "Open"),
                 ResolvedLine("X06", 24 * 5 + 9, NullNum, "Karachi", "Clifton",
                              "Karachi City", NullStr),
                 ResolvedLine("X07", 24 * 11 + 9, 24 * 14 + 9, "Lahore", "Gulberg",
                              "", "In Progress") >>]

\* what earlier runs over other data left in the two tables
StaleMttr(shape) ==
    IF shape = "none" THEN EmptyBag
    ELSE SetToBag({[date |-> dd, dimension |-> "Total", dimension_key |-> "All",
                    avg_mttr_hours |-> 100, total_resolved_count |-> 1] :
                   dd \in IF shape = "day" THEN {13} ELSE {12, 13, 14}})

StaleAging(shape) ==
    IF shape = "none" THEN EmptyBag
    ELSE SetToBag({[date |-> dd, dimension |-> "Total", dimension_key |-> "All",
                    slab |-> "> 60 Days", count |-> 1] :
                   dd \in IF shape = "day" THEN {13} ELSE {12, 13, 14}})

MaxResolutions == 2

InitResolution ==
    /\ legacy_schema = FALSE
    /\ altered = {}
    /\ raw \in {{}, IngestionRun({}, FileAll, FALSE)[2], IngestionRun({}, FileResolved, FALSE)[2]}
    /\ baselines = [dim \in SeqToSet(dimensions) |-> NoFile]
    /\ anomalies = EmptyBag
    /\ trends = EmptyBag
    /\ variations = EmptyBag
    /\ insights = EmptyBag
    /\ \E shape \in {"none", "day", "days"} :
          /\ mttr = StaleMttr(shape)
          /\ aging = StaleAging(shape)
          /\ hist = [target_date |-> NullNum, mttr |-> StaleMttr(shape),
                     aging |-> StaleAging(shape)]
    /\ session = NoSession
    /\ pc = "idle"
    /\ args = NoArgs
    /\ trace = << >>
    /\ result = NoResult
    /\ runs = 0
    /\ faults = 0

\* ResolutionAgent().run({"target_date": D})
ResolutionStage ==
    /\ pc = "idle"
    /\ runs < MaxResolutions
    /\ \E d \in {13, 14}, f \in Fault :
          \E out \in {ResolutionRun(raw, mttr, aging, d, f)} :
             /\ args' = [NoArgs EXCEPT !.target_date = d]
             /\ mttr' = out[2]
             /\ aging' = out[3]
             /\ result' = out[1]
             /\ trace' = <<[stage |-> "Resolution", res |-> out[1]]>>
             /\ faults' = Charge(f)
    /\ runs' = runs + 1
    /\ hist' = [target_date |-> args.target_date, mttr |-> mttr, aging |-> aging]
    /\ UNCHANGED <<session, legacy_schema, altered, raw, baselines, anomalies, trends, variations,
                   insights, pc>>

NextResolution == ResolutionStage

SpecResolution == InitResolution /\ [][NextResolution]_vars

\* C28: after a Resolution run that returns success, the rows of daily_mttr
\* and of daily_aging for the date are exactly the records the run computed,
\* also when it computed none, the rows of other dates are as they were, and
\* a run that finds the tables already so leaves them unchanged
C28_ResolutionReplacesRows ==
    result.status = "success" =>
        /\ BagFilter(mttr, LAMBDA r : r.date = args.target_date)
              = calculate_mttr(raw, args.target_date)
        /\ BagFilter(aging, LAMBDA r : r.date = args.target_date)
              = calculate_aging(raw, args.target_date)
        /\ BagFilter(mttr, LAMBDA r : r.date # args.target_date)
              = BagFilter(hist.mttr, LAMBDA r : r.date # args.target_date)
        /\ BagFilter(aging, LAMBDA r : r.date # args.target_date)
              = BagFilter(hist.aging, LAMBDA r : r.date # args.target_date)
        /\ (hist.target_date = args.target_date /\ runs = MaxResolutions /\ faults = 0) =>
              (mttr = hist.mttr /\ aging = hist.aging)

\* a run that computed no MTTR record removed the rows an earlier run had
\* left for the date, and kept those of another date
C28_Witness ==
    /\ result.status = "success"
    /\ result.mttr_stored = 0
    /\ BagFilter(hist.mttr, LAMBDA r : r.date = args.target_date) # EmptyBag
    /\ BagFilter(mttr, LAMBDA r : r.date = args.target_date) = EmptyBag
    /\ mttr # EmptyBag

\* a run that computed aging records of more than one slab
C28_WitnessAging ==
    /\ result.status = "success"
    /\ result.aging_stored > 4

-----------------------------------------------------------------------------
(* The surge run on the first day of a month *)

\* mtd_avg_data is what _get_mtd_average returns for the empty period from the
\* 1st through the day before the 1st
FirstOfMonth(c) == c.mtd_avg_data = MtdData(<<"Cantt">>, TRUE, 0)

\* C29: a Surge run for the first day of a month that no database failure
\* hits, on keys that split into their names, returns success, whatever the
\* counts of the day are
C29_FirstOfMonthSucceeds ==
    (/\ pc = "idle"
     /\ faults = 0
     /\ FirstOfMonth(args)
     /\ \A k \in DOMAIN args.target_data.exchanges : Len(SplitKey(k)) = 2
     /\ \A k \in DOMAIN args.target_data.cities : Len(SplitKey(k)) = 3) =>
        result.status = "success"

\* the same when no city reaches the floor of 5 complaints, where it holds
C29_FirstOfMonthWithoutCities ==
    (/\ pc = "idle"
     /\ faults = 0
     /\ FirstOfMonth(args)
     /\ \A k \in DOMAIN args.target_data.exchanges : Len(SplitKey(k)) = 2
     /\ \A k \in DOMAIN args.target_data.cities :
           Len(SplitKey(k)) = 3 /\ args.target_data.cities[k] < 5) =>
        result.status = "success"

-----------------------------------------------------------------------------
(* Two invocations for the same date whose Anomaly store steps interleave *)

\* the command line and the dashboard's "Run Analysis" button
Invocations == {"cli", "dashboard"}

\* the export without its last two lines, the complaints whose region is
\* missing and the text None
FileRegions == [FileAll EXCEPT !.rows = SubSeq(AllLines, 1, Len(AllLines) - 2)]

\* the state the two invocations start in: the export ingested, the artifacts
\* of a Baseline stage for the date on a table with the columns its query
\* names, and in daily_anomalies what an earlier Anomaly run for the same date
\* or for the other date stored
ConcurrentInput(file, d, shape) ==
    The({The({[raw |-> tbl,
               baselines |-> files,
               anomalies |->
                  IF shape = "none" THEN EmptyBag
                  ELSE IF shape = "same day"
                  THEN The(AnomalyRun(tbl, files, EmptyBag, d, FALSE, ModelsEnum))[2]
                  ELSE The(AnomalyRun(tbl,
                                      BaselineRun(tbl, [dim \in SeqToSet(dimensions) |-> NoFile],
                                                  TRUE, 27 - d, FALSE)[2],
                                      EmptyBag, 27 - d, FALSE, ModelsEnum))[2]] :
                files \in {BaselineRun(tbl, [dim \in SeqToSet(dimensions) |-> NoFile],
                                       TRUE, d, FALSE)[2]}}) :
           tbl \in {IngestionRun({}, file, FALSE)[2]}})

InitConcurrent ==
    /\ legacy_schema = TRUE
    /\ altered = {}
    /\ \E file \in {FileAll, FileRegions}, d \in {13, 14} :
          \E shape \in {"none", "other day", "same day"} :
             \E inp \in {ConcurrentInput(file, d, shape)} :
                /\ raw = inp.raw
                /\ baselines = inp.baselines
                /\ anomalies = inp.anomalies
                /\ args = [NoArgs EXCEPT !.target_date = d]
    /\ trends = EmptyBag
    /\ variations = EmptyBag
    /\ insights = EmptyBag
    /\ mttr = EmptyBag
    /\ aging = EmptyBag
    /\ session = [p \in Invocations |->
                    [step |-> "idle", found |-> EmptyBag, deleted |-> EmptyBag]]
    /\ pc = "concurrent"
    /\ trace = << >>
    /\ result = NoResult
    /\ runs = 0
    /\ faults = 0
    /\ hist = Snapshot(NoArgs, NoResult, {}, [dim \in SeqToSet(dimensions) |-> NoFile],
                        EmptyBag, EmptyBag, EmptyBag, EmptyBag)

Other(p) == CHOOSE q \in Invocations : q # p

\* the transaction of q holds record locks on rows of the date: rows its
\* DELETE matched, or rows it inserted and has not committed
HoldsRows(q) ==
    \/ session[q].step = "flushed"
    \/ session[q].step = "deleted" /\ session[q].deleted # EmptyBag

\* the transaction of q holds the gap lock that its DELETE set on the index
\* range of the date (InnoDB at its default isolation, which the engine of
\* get_engine() leaves as it is)
HoldsGap(q) == session[q].step = "deleted"

\* the Anomaly stage of an invocation up to "if anomalies: session =
\* get_session()": the detection over complaints_raw and the artifacts; with
\* nothing detected the stage returns without a store
BeginStore(p) ==
    /\ pc = "concurrent"
    /\ session[p].step = "idle"
    /\ \E found \in {DetectAll(RowsOn(raw, args.target_date), baselines, args.target_date, 1)} :
          IF found = EmptyBag
          THEN /\ session' = [session EXCEPT ![p].step = "skipped"]
               /\ trace' = Append(trace, [stage |-> "Anomaly",
                                          res |-> [status |-> "success", anomalies_found |-> 0]])
          ELSE /\ session' = [session EXCEPT ![p].step = "begun", ![p].found = found]
               /\ trace' = trace
    /\ runs' = runs + 1
    /\ UNCHANGED <<legacy_schema, altered, raw, baselines, anomalies, trends, variations, insights,
                   mttr, aging, pc, args, result, faults, hist>>

\* session.query(DailyAnomalies).filter(anomaly_date == D).delete(): a locking
\* read of the committed rows of the date, which waits while the other
\* transaction holds locks on rows of the date
DeleteRows(p) ==
    /\ pc = "concurrent"
    /\ session[p].step = "begun"
    /\ ~HoldsRows(Other(p))
    /\ session' = [session EXCEPT ![p].step = "deleted",
                                  ![p].deleted = AnomaliesOn(anomalies, args.target_date)]
    /\ UNCHANGED <<legacy_schema, altered, raw, baselines, anomalies, trends, variations, insights,
                   mttr, aging, pc, args, trace, result, runs, faults, hist>>

\* session.add_all(db_objects) and the flush that session.commit() starts
\* with: the INSERT statements run inside the transaction, after waiting for
\* the gap lock of the other transaction's DELETE; the rows are not committed
FlushInserts(p) ==
    /\ pc = "concurrent"
    /\ session[p].step = "deleted"
    /\ ~HoldsGap(Other(p))
    /\ session' = [session EXCEPT ![p].step = "flushed"]
    /\ UNCHANGED <<legacy_schema, altered, raw, baselines, anomalies, trends, variations, insights,
                   mttr, aging, pc, args, trace, result, runs, faults, hist>>

\* the COMMIT that session.commit() ends with: the delete and the inserts of
\* the transaction become the committed rows together
CommitStore(p) ==
    /\ pc = "concurrent"
    /\ session[p].step = "flushed"
    /\ anomalies' = (anomalies (-) session[p].deleted) (+) session[p].found
    /\ session' = [session EXCEPT ![p].step = "committed", ![p].deleted = EmptyBag]
    /\ trace' = Append(trace, [stage |-> "Anomaly", res |-> [status |-> "success",
                                  anomalies_found |-> BagCardinality(session[p].found)]])
    /\ UNCHANGED <<legacy_schema, altered, raw, baselines, trends, variations, insights,
                   mttr, aging, pc, args, result, runs, faults, hist>>

\* both inserts wait for the other's gap lock: the server rolls one of the two
\* transactions back, session.commit() raises and the stage returns status
\* error
Deadlock(p) ==
    /\ pc = "concurrent"
    /\ session[p].step = "deleted"
    /\ HoldsGap(Other(p))
    /\ session' = [session EXCEPT ![p].step = "rolled back", ![p].deleted = EmptyBag]
    /\ trace' = Append(trace, [stage |-> "Anomaly",
                               res |-> [status |-> "error", message |-> "database error"]])
    /\ UNCHANGED <<legacy_schema, altered, raw, baselines, anomalies, trends, variations, insights,
                   mttr, aging, pc, args, result, runs, faults, hist>>

\* the DELETE waits for the other transaction longer than the server's lock
\* wait timeout: the statement raises and the stage returns status error
LockWaitTimeout(p) ==
    /\ pc = "concurrent"
    /\ session[p].step = "begun"
    /\ HoldsRows(Other(p))
    /\ session' = [session EXCEPT ![p].step = "rolled back"]
    /\ trace' = Append(trace, [stage |-> "Anomaly",
                               res |-> [status |-> "error", message |-> "database error"]])
    /\ UNCHANGED <<legacy_schema, altered, raw, baselines, anomalies, trends, variations, insights,
                   mttr, aging, pc, args, result, runs, faults, hist>>

\* a query of the dashboard while the invocations run: the committed rows
ReadAnomalies ==
    /\ pc = "concurrent"
    /\ result' = [status |-> "read", anomalies |-> anomalies]
    /\ UNCHANGED <<legacy_schema, altered, raw, baselines, anomalies, trends, variations, insights,
                   mttr, aging, session, pc, args, trace, runs, faults, hist>>

NextConcurrent ==
    \/ \E p \in Invocations : BeginStore(p)
    \/ \E p \in Invocations : DeleteRows(p)
    \/ \E p \in Invocations : FlushInserts(p)
    \/ \E p \in Invocations : CommitStore(p)
    \/ \E p \in Invocations : Deadlock(p)
    \/ \E p \in Invocations : LockWaitTimeout(p)
    \/ ReadAnomalies

SpecConcurrent == InitConcurrent /\ [][NextConcurrent]_vars

\* both Anomaly stages have returned
BothReturned ==
    /\ pc = "concurrent"
    /\ \A p \in Invocations : session[p].step \in {"committed", "rolled back", "skipped"}

\* no two rows of a table share (anomaly_date, dimension, dimension_key)
NaturalKeyUnique(table) ==
    \A r \in BagToSet(table) :
       /\ CopiesIn(r, table) = 1
       /\ \A s \in BagToSet(table) :
             (s.anomaly_date = r.anomaly_date /\ s.dimension = r.dimension
              /\ s.dimension_key = r.dimension_key) => s = r

\* C30: however the delete-then-insert transactions of the Anomaly stages of
\* two invocations for the same date interleave, daily_anomalies ends with no
\* two rows that share (anomaly_date, dimension, dimension_key)
C30_NoDuplicateAnomalies == BothReturned => NaturalKeyUnique(anomalies)

\* what the interleavings do keep: once both stages have returned, the rows of
\* the date are the detections of one invocation, each as often as that
\* invocation detected it
RowsAreOneRunsDetections ==
    (BothReturned /\ \E p \in Invocations : session[p].step = "committed") =>
        AnomaliesOn(anomalies, args.target_date)
           = DetectAll(RowsOn(raw, args.target_date), baselines, args.target_date, 1)

\* with no complaint whose region is missing or the text None, where one
\* invocation detects no key twice, the rows end without a repeated key
UniqueWithoutNoneKeys ==
    (BothReturned /\ \A c \in raw : Str(c["region"]) # "None") => NaturalKeyUnique(anomalies)

\* one transaction has run its INSERT statements and not committed, while the
\* other has still to run its DELETE
FlushedNotCommitted ==
    \E p \in Invocations : session[p].step = "flushed" /\ session[Other(p)].step = "begun"

====
